---------------------------- MODULE Spec2Model ----------------------------
(***************************************************************************)
(* State-machine model of the retry engine (protocol/include/retry.hpp),   *)
(* the urgency dispatcher and Packet (protocol/include/protocol.hpp), the  *)
(* client session (ws-client/src/ws_client.cpp), the server with its       *)
(* accept loop and sessions (ws-server/src/ws_server.cpp) and the          *)
(* orchestrator with its three threads (src/main.cpp).                     *)
(*                                                                         *)
(* A coroutine is modelled by its position (the co_await it is suspended   *)
(* in); one action is the code that runs between two suspension points.    *)
(* Durations are whole milliseconds (std::chrono::milliseconds).  The      *)
(* double arithmetic of ExponentialBackoffPolicy::delay_for is modelled by *)
(* exact binary numbers, a significand and an exponent.                    *)
(***************************************************************************)
EXTENDS Integers, Sequences, FiniteSets, TLC

VARIABLES
    \* ---- one run of RetryExecutor::execute / execute_if ----
    policy_,          \* RetryExecutor::policy_ (the backoff policy object)
    r_mode,           \* which member runs: "execute", "execute_void", "execute_if"
    r_retryable,      \* execute_if: the errors should_retry reports as retryable
    rpc,              \* position of the coroutine: idle, invoking, waiting, done
    attempt,          \* the loop variable `attempt`
    result,           \* the RetryResult being built / returned
    r_invocations,    \* number of times the operation was invoked
    r_ops,            \* outcome of each finished invocation: "ok" or the error
    r_delays,         \* the delays handed to the steady_timer, in order
    r_predCalls,      \* number of calls of should_retry
    stopInBackoff,    \* history: stop() was called while a timer with a
                      \* delay > 0 was pending
    \* ---- one call of dispatch ----
    d_api,            \* "PacketDispatcher" or "ProtocolAPI"
    d_pkt,            \* the Packet handed to dispatch
    d_pc,             \* "ready" or "dispatched"
    d_hooks,          \* hook invocations made by the call, in order
    d_logs,           \* lines given to logging_policy_.log by the call
    d_raised,         \* whether the call raised an error
    \* ---- the WSClient object and its session coroutines ----
    client_running,   \* WSClient::running_
    sessions,         \* one record per co_spawned run_session coroutine
    inbound,          \* number of inbound messages delivered so far
    c_normal,         \* payloads given to WSClient::on_normal, in order
    c_urgent,         \* payloads given to WSClient::on_urgent, in order
    client_destroyed, \* ~WSClient has run on the object
    client_moved,     \* the object has been moved from: ssl_ctx_ is null
    \* ---- the WSServer object, its accept loops and its sessions ----
    server_running,   \* WSServer::running_
    acceptor_open,    \* WSServer::acceptor_ is open
    accept_loops,     \* position of each co_spawned accept_loop coroutine
    srv_sessions,     \* one record per co_spawned handle_session coroutine
    s_inbound,        \* number of inbound messages delivered so far
    s_normal,         \* payloads given to WSServer::on_normal, in order
    s_urgent,         \* payloads given to WSServer::on_urgent, in order
    s_stops,          \* history: calls of WSServer::stop() so far (0, 1, many)
    server_destroyed, \* ~WSServer has run on the object
    \* ---- one Packet object ----
    packet,           \* the Packet: payload_ and urgency_
    packet_given,     \* history: the urgency given when packet was constructed
    \* ---- calls of delay_for on one backoff policy ----
    b_policy,         \* the policy object, its durations as full-width counts
    b_attempt,        \* the attempt index passed to delay_for
    b_pc,             \* "ready", "called", "twice" or "trapped"
    b_first,          \* the count returned by the first call
    b_second,         \* the count returned by the second call, same argument
    \* ---- the orchestrator (main.cpp): the flag and its three threads ----
    g_running,        \* std::atomic<bool> g_running
    main_pc,          \* position of the main thread in Application::run
    server_thread,    \* position of server_thread in run_server
    client_thread     \* position of client_thread in run_client

retryVars  == <<policy_, r_mode, r_retryable, rpc, attempt, result,
                r_invocations, r_ops, r_delays, r_predCalls, stopInBackoff>>
dispVars   == <<d_api, d_pkt, d_pc, d_hooks, d_logs, d_raised>>
clientVars == <<client_running, sessions, inbound, c_normal, c_urgent,
                client_destroyed, client_moved>>
serverVars == <<server_running, acceptor_open, accept_loops, srv_sessions,
                s_inbound, s_normal, s_urgent, s_stops, server_destroyed>>
pktVars    == <<packet, packet_given>>
backoffVars == <<b_policy, b_attempt, b_pc, b_first, b_second>>
orchVars   == <<g_running, main_pc, server_thread, client_thread>>
vars       == <<retryVars, dispVars, clientVars, serverVars, pktVars, backoffVars, orchVars>>

-----------------------------------------------------------------------------
(* Bounds of the model *)

MaxAttemptsBound == 3

-----------------------------------------------------------------------------
(* Small helpers *)

Min(a, b) == IF a < b THEN a ELSE b

RECURSIVE SumSeq(_)
SumSeq(s) == IF s = <<>> THEN 0 ELSE s[1] + SumSeq(Tail(s))

\* static_cast<std::int64_t>(double): truncation toward zero of n/d, d > 0
Trunc(n, d) == IF n >= 0 THEN n \div d ELSE -((-n) \div d)

-----------------------------------------------------------------------------
(* Backoff policies *)

Errors  == {"timeout", "auth"}
NoError == "none"

FixedPolicies ==
    { [kind |-> "fixed", delay |-> d, max_attempts |-> n] :
        d \in {0, 5}, n \in 0..MaxAttemptsBound }

LinearPolicies ==
    { [kind |-> "linear", initial |-> 1, increment |-> 2, max_delay |-> 4,
       max_attempts |-> n] : n \in 0..MaxAttemptsBound }

\* multiplier = mul_num / mul_den, jitter_factor = jit_num / jit_den
ExpShapes ==
    { [initial |-> 100, max_delay |-> 10000, mul_num |-> 2, mul_den |-> 1,
       jit_num |-> 0, jit_den |-> 1],
      [initial |-> 1, max_delay |-> 3, mul_num |-> 2, mul_den |-> 1,
       jit_num |-> 0, jit_den |-> 1],
      [initial |-> 2, max_delay |-> 10, mul_num |-> 3, mul_den |-> 2,
       jit_num |-> 0, jit_den |-> 1],
      [initial |-> 2, max_delay |-> 5, mul_num |-> 2, mul_den |-> 1,
       jit_num |-> 1, jit_den |-> 2] }

ExponentialPolicies ==
    { [kind |-> "exponential", initial |-> s.initial, max_delay |-> s.max_delay,
       mul_num |-> s.mul_num, mul_den |-> s.mul_den,
       jit_num |-> s.jit_num, jit_den |-> s.jit_den, max_attempts |-> n] :
        s \in ExpShapes, n \in 0..MaxAttemptsBound }

Policies == FixedPolicies \cup LinearPolicies \cup ExponentialPolicies

-----------------------------------------------------------------------------
(* The numbers of the delay computations *)

\* A std::int64_t count and a double are kept as [m, e, c], the number
\* m * 2^e + c: every double is such a number with c = 0, and c = -1 is only
\* needed for the largest count, 2^63 - 1. m stays below 2^30, which is inside
\* the 53 bits of a double's mantissa, so the products and sums below are as
\* exact in the code as they are here.
RECURSIVE Pow2(_)
Pow2(k) == IF k <= 0 THEN 1 ELSE 2 * Pow2(k - 1)

RECURSIVE Log2(_)
Log2(n) == IF n <= 1 THEN 0 ELSE 1 + Log2(n \div 2)

RECURSIVE BitLen(_)
BitLen(n) == IF n = 0 THEN 0 ELSE 1 + BitLen(n \div 2)

Abs(n) == IF n < 0 THEN -n ELSE n

Sign(n) == IF n > 0 THEN 1 ELSE IF n < 0 THEN -1 ELSE 0

RECURSIVE Norm(_)
Norm(x) ==
    IF x.m = 0 THEN [m |-> 0, e |-> 0, c |-> x.c]
    ELSE IF x.m % 2 = 0 THEN Norm([x EXCEPT !.m = x.m \div 2, !.e = x.e + 1])
    ELSE x

Num(m, e) == Norm([m |-> m, e |-> e, c |-> 0])

\* Duration{k}, k milliseconds
Ms(k) == Num(k, 0)

\* Duration::count() of a small duration, as an integer of the model
Count(x) == x.m * Pow2(x.e) + x.c

\* std::numeric_limits<std::int64_t>::max() and min(); Duration::max()
RepMax == [m |-> 1, e |-> 63, c |-> -1]
RepMin == Num(-1, 63)

Neg(x) == [x EXCEPT !.m = -x.m, !.c = -x.c]

\* the position above the highest set bit of |m * 2^e|, m # 0
Top(x) == BitLen(Abs(x.m)) + x.e

\* m * 2^e of x below m * 2^e of y, both positive
PosLess(x, y) ==
    IF Top(x) # Top(y) THEN Top(x) < Top(y)
    ELSE LET e == Min(x.e, y.e)
         IN  x.m * Pow2(x.e - e) < y.m * Pow2(y.e - e)

\* x < y. Two numbers whose m * 2^e differ are apart by more than 1, because
\* the only number with c # 0 is RepMax.
Less(x, y) ==
    IF x.m = y.m /\ x.e = y.e THEN x.c < y.c
    ELSE IF Sign(x.m) # Sign(y.m) THEN Sign(x.m) < Sign(y.m)
    ELSE IF x.m > 0 THEN PosLess(x, y)
    ELSE PosLess(Neg(y), Neg(x))

Leq(x, y) == ~Less(y, x)

\* std::min on two counts
RepMin2(x, y) == IF Less(y, x) THEN y ELSE x

\* static_cast<double>(count): exact for the small counts; 2^63 - 1 has more
\* than 53 significant bits and rounds to 2^63
ToDouble(x) == [x EXCEPT !.c = 0]

\* the product and the sum of two doubles
DMul(x, y) == Num(x.m * y.m, x.e + y.e)

DAdd(x, y) ==
    IF x.m = 0 THEN y
    ELSE IF y.m = 0 THEN x
    ELSE LET e == Min(x.e, y.e)
         IN  Num(x.m * Pow2(x.e - e) + y.m * Pow2(y.e - e), e)

\* the whole part of a double
TruncD(x) ==
    IF x.e >= 0 THEN x
    ELSE IF -x.e > 30 THEN Ms(0)
    ELSE Ms(Trunc(x.m, Pow2(-x.e)))

\* whether a number lies in the range of std::int64_t
InRepRange(x) == Less(x, Num(1, 63)) /\ ~Less(x, RepMin)

\* static_cast<std::int64_t>(double): truncation toward zero; for a value
\* outside the range of std::int64_t the conversion is undefined, and yields
\* the smallest count where the instruction reports "indefinite" (x86-64) and
\* the largest where it saturates (AArch64)
CastToRep(x) == IF InRepRange(x) THEN {TruncD(x)} ELSE {RepMin, RepMax}

\* a whole number m * 2^e >= 0 reduced modulo 2^64 and read as a signed
\* 64-bit count: what two's-complement arithmetic leaves of an overflow
Wrap64(x) ==
    IF InRepRange(x) THEN x
    ELSE IF x.e >= 64 THEN Ms(0)
    ELSE LET r == x.m % Pow2(64 - x.e)
         IN  IF r >= Pow2(63 - x.e) THEN Num(r - Pow2(64 - x.e), x.e)
             ELSE Num(r, x.e)

-----------------------------------------------------------------------------
(* delay_for of the three policies, on counts of the full width *)

\* the policy with its durations as counts of the full width
Widen(p) ==
    CASE p.kind = "fixed" -> [p EXCEPT !.delay = Ms(@)]
      [] p.kind = "linear" ->
            [p EXCEPT !.initial = Ms(@), !.increment = Ms(@), !.max_delay = Ms(@)]
      [] p.kind = "exponential" ->
            [p EXCEPT !.initial = Ms(@), !.max_delay = Ms(@)]

\* FixedBackoffPolicy::delay_for
FixedDelayFor(p, a) == p.delay

\* `increment_ * attempt` and `initial_ + ...` as the exact numbers
LinearProduct(p, a) == DMul(p.increment, a)

LinearSum(p, a) == DAdd(p.initial, Wrap64(LinearProduct(p, a)))

\* whether the signed 64-bit arithmetic of LinearBackoffPolicy::delay_for
\* overflows for attempt a
LinearOverflows(p, a) ==
    ~InRepRange(LinearProduct(p, a)) \/ ~InRepRange(LinearSum(p, a))

\* LinearBackoffPolicy::delay_for, where std::size_t is narrower than the
\* count and the arithmetic is done in std::int64_t; an overflow is undefined
\* and leaves the wrapped value unless the build traps
LinearDelayFor(p, a) == RepMin2(Wrap64(LinearSum(p, a)), p.max_delay)

\* multiplier_ and jitter_factor_
Multiplier(p) == Num(p.mul_num, -Log2(p.mul_den))

JitterFactor(p) == Num(p.jit_num, -Log2(p.jit_den))

\* The loop of ExponentialBackoffPolicy::delay_for: base_ms after the
\* multiplications i .. a-1, clamped once it exceeds max_delay_.
RECURSIVE ExpBase(_, _, _, _)
ExpBase(p, i, a, b) ==
    IF i >= a THEN b
    ELSE LET b2 == DMul(b, Multiplier(p))
         IN  IF Less(ToDouble(p.max_delay), b2) THEN ToDouble(p.max_delay)
             ELSE ExpBase(p, i + 1, a, b2)

\* the ends of the interval base_ms * dist(rng_) is drawn from
JitterLow(p, b) == DMul(b, DAdd(Ms(1), Neg(JitterFactor(p))))

JitterHigh(p, b) == DMul(b, DAdd(Ms(1), JitterFactor(p)))

\* whether a value delay_for may have to convert lies outside std::int64_t
ExponentialOverflows(p, a) ==
    LET b == ExpBase(p, 0, a, ToDouble(p.initial))
    IN  ~InRepRange(IF p.jit_num > 0 THEN JitterHigh(p, b) ELSE b)

\* counts below 2^SmallBits are enumerated one by one
SmallBits == 20

\* `static_cast<std::int64_t>(base_ms * dist(rng_))`: with jitter, every
\* whole number between base*(1 - jitter) and base*(1 + jitter); of the large
\* values only the two ends and the middle are followed
JitterRange(p, b) ==
    IF p.jit_num > 0
    THEN LET lo == JitterLow(p, b)
             hi == JitterHigh(p, b)
         IN  IF hi.m = 0 \/ Top(hi) <= SmallBits
             THEN { Ms(k) : k \in Count(TruncD(lo)) .. Count(TruncD(hi)) }
             ELSE UNION { CastToRep(x) : x \in {lo, b, hi} }
    ELSE CastToRep(b)

\* ExponentialBackoffPolicy::delay_for: the set of values one call may return
ExponentialDelayFor(p, a) ==
    { RepMin2(ms, p.max_delay) :
        ms \in JitterRange(p, ExpBase(p, 0, a, ToDouble(p.initial))) }

\* delay_for(attempt) of a policy: the set of counts the call may return
PolicyDelayFor(p, a) ==
    CASE p.kind = "fixed"       -> {FixedDelayFor(p, a)}
      [] p.kind = "linear"      -> {LinearDelayFor(p, Ms(a))}
      [] p.kind = "exponential" -> ExponentialDelayFor(p, a)

\* policy_.delay_for(attempt) in the retry engine: the set of values the call
\* may return, in milliseconds
delay_for(p, a) == { Count(v) : v \in PolicyDelayFor(Widen(p), a) }

\* policy_.max_attempts()
max_attempts(p) == p.max_attempts

-----------------------------------------------------------------------------
(* Calls of delay_for on a policy object *)

MaxIndex == 5

\* attempt indices around which 100 * 2^a and 2^a pass 2^63
LargeIndices == {56, 57, 58, 62, 63, 64}

AttemptIndices == (0..MaxIndex) \cup LargeIndices

\* further exponential configurations: jitter_factor 1, multiplier 1 with
\* initial_delay = max_delay, and an initial delay of 0
MoreExpShapes ==
    { [initial |-> 3, max_delay |-> 4, mul_num |-> 2, mul_den |-> 1,
       jit_num |-> 1, jit_den |-> 1],
      [initial |-> 4, max_delay |-> 4, mul_num |-> 1, mul_den |-> 1,
       jit_num |-> 0, jit_den |-> 1],
      [initial |-> 0, max_delay |-> 4, mul_num |-> 2, mul_den |-> 1,
       jit_num |-> 0, jit_den |-> 1] }

\* exponential policies without a cap: max_delay = Duration::max()
UncappedPolicies ==
    { [kind |-> "exponential", initial |-> Ms(100), max_delay |-> RepMax,
       mul_num |-> 2, mul_den |-> 1, jit_num |-> 0, jit_den |-> 1,
       max_attempts |-> MaxAttemptsBound],
      [kind |-> "exponential", initial |-> Ms(1), max_delay |-> RepMax,
       mul_num |-> 2, mul_den |-> 1, jit_num |-> 1, jit_den |-> 2,
       max_attempts |-> MaxAttemptsBound] }

\* further linear configurations: initial > max_delay, an increment of 0, and
\* increments of 2^62 ms
MoreLinearPolicies ==
    { [kind |-> "linear", initial |-> Ms(9), increment |-> Ms(2),
       max_delay |-> Ms(4), max_attempts |-> MaxAttemptsBound],
      [kind |-> "linear", initial |-> Ms(3), increment |-> Ms(0),
       max_delay |-> Ms(4), max_attempts |-> MaxAttemptsBound],
      [kind |-> "linear", initial |-> Ms(0), increment |-> Num(1, 62),
       max_delay |-> Ms(30000), max_attempts |-> MaxAttemptsBound],
      [kind |-> "linear", initial |-> Num(1, 62), increment |-> Num(1, 62),
       max_delay |-> RepMax, max_attempts |-> MaxAttemptsBound] }

DelayPolicies ==
    { Widen(p) : p \in { q \in Policies : q.max_attempts = MaxAttemptsBound } }
    \cup { Widen([kind |-> "exponential", initial |-> s.initial,
                  max_delay |-> s.max_delay,
                  mul_num |-> s.mul_num, mul_den |-> s.mul_den,
                  jit_num |-> s.jit_num, jit_den |-> s.jit_den,
                  max_attempts |-> MaxAttemptsBound]) : s \in MoreExpShapes }
    \cup UncappedPolicies
    \cup MoreLinearPolicies

\* whether the call meets undefined behaviour: a signed overflow or a
\* conversion of a double outside the range of the count
Overflows(p, a) ==
    CASE p.kind = "fixed"       -> FALSE
      [] p.kind = "linear"      -> LinearOverflows(p, Ms(a))
      [] p.kind = "exponential" -> ExponentialOverflows(p, a)

\* delay_for(attempt) is called and returns
DelayForCall ==
    /\ b_pc = "ready"
    /\ b_first' \in PolicyDelayFor(b_policy, b_attempt)
    /\ b_pc' = "called"
    /\ UNCHANGED <<b_policy, b_attempt, b_second>>
    /\ UNCHANGED <<retryVars, dispVars, clientVars, serverVars, pktVars, orchVars>>

\* delay_for is called again with the same argument
DelayForAgain ==
    /\ b_pc = "called"
    /\ b_second' \in PolicyDelayFor(b_policy, b_attempt)
    /\ b_pc' = "twice"
    /\ UNCHANGED <<b_policy, b_attempt, b_first>>
    /\ UNCHANGED <<retryVars, dispVars, clientVars, serverVars, pktVars, orchVars>>

\* a build that traps on undefined behaviour ends the process in the call
DelayForTraps ==
    /\ b_pc \in {"ready", "called"}
    /\ Overflows(b_policy, b_attempt)
    /\ b_pc' = "trapped"
    /\ UNCHANGED <<b_policy, b_attempt, b_first, b_second>>
    /\ UNCHANGED <<retryVars, dispVars, clientVars, serverVars, pktVars, orchVars>>

\* the caller turns to another attempt index of the same policy object
NextDelayQuery ==
    /\ b_pc = "twice"
    /\ b_attempt' \in AttemptIndices
    /\ b_pc' = "ready"
    /\ b_first' = Ms(0)
    /\ b_second' = Ms(0)
    /\ UNCHANGED b_policy
    /\ UNCHANGED <<retryVars, dispVars, clientVars, serverVars, pktVars, orchVars>>


-----------------------------------------------------------------------------
(* RetryResult and RetryExecutor *)

NoValue == "nullopt"

Modes == {"execute", "execute_void", "execute_if", "execute_if_void"}

IsExecuteIf(m) == m \in {"execute_if", "execute_if_void"}

\* ResultT is void: the outcome is a RetryResult<void>
IsVoid(m) == m \in {"execute_void", "execute_if_void"}

\* A default-constructed RetryResult<T> / RetryResult<void>
EmptyResult ==
    [value |-> NoValue, succeeded |-> FALSE, attempts |-> 0,
     total_delay |-> 0, last_error |-> NoError]

\* RetryResult::success: value.has_value(), or succeeded for RetryResult<void>
success(res, m) == IF IsVoid(m) THEN res.succeeded ELSE res.value # NoValue

\* RetryResult::failed
failed(res, m) == ~success(res, m)

\* mutant: the body runs before the condition is first tested
LoopRunsAtLeastOnce(a, p) == a = 0 \/ a < max_attempts(p)

\* mutant: the loop runs once more than the policy allows
LoopRunsOnceMore(a, p) == a <= max_attempts(p)

\* the loop condition `attempt < policy_.max_attempts()`
LoopContinues(a, p) == a < max_attempts(p)

\* mutant: the zero-based loop index is stored as the attempt count
SetAttemptsZeroBased(res, a) == [res EXCEPT !.attempts = a]

\* `result.attempts = attempt + 1`
SetAttempts(res, a) == [res EXCEPT !.attempts = a + 1]

\* mutant: a success clears the error of the earlier attempts
StoreSuccessClearsError(res, m) ==
    IF IsVoid(m) THEN [res EXCEPT !.succeeded = TRUE, !.last_error = NoError]
    ELSE [res EXCEPT !.value = "v", !.last_error = NoError]

\* the try block after the operation returned: store the value (or set
\* succeeded) before co_return
StoreSuccess(res, m) ==
    IF IsVoid(m) THEN [res EXCEPT !.succeeded = TRUE]
    ELSE [res EXCEPT !.value = "v"]

\* `result.last_error = std::current_exception()`
StoreError(res, e) == [res EXCEPT !.last_error = e]

\* mutant: the delay is also waited after the last attempt
ShouldDelayAfterLast(a, p) == a < max_attempts(p)

\* "Don't delay after last attempt": `attempt + 1 < policy_.max_attempts()`
ShouldDelay(a, p) == a + 1 < max_attempts(p)

\* `result.total_delay += delay`
AddDelay(res, d) == [res EXCEPT !.total_delay = @ + d]

\* mutant: the `!` is missing and a retryable error ends the run
PredicateNegated(m, e, retryable) == IsExecuteIf(m) /\ e \in retryable

\* mutant: the predicate's answer is ignored
PredicateIgnored(m, e, retryable) == FALSE

\* `!std::invoke(should_retry, result.last_error)`: the predicate is only
\* consulted by execute_if
NonRetryable(m, e, retryable) == IsExecuteIf(m) /\ e \notin retryable

\* The head of the for loop, entered with loop variable a and outcome res:
\* either the next invocation of the operation is started or the loop ends
\* and the outcome is returned.
LoopHead(a, res) ==
    /\ attempt' = a
    /\ IF LoopContinues(a, policy_)
       THEN /\ result' = SetAttempts(res, a)
            /\ r_invocations' = r_invocations + 1
            /\ rpc' = "invoking"
       ELSE /\ result' = res
            /\ r_invocations' = r_invocations
            /\ rpc' = "done"

\* The retry coroutine is started and runs to its first suspension.
RetryBegin ==
    /\ rpc = "idle"
    /\ LoopHead(0, EmptyResult)
    /\ UNCHANGED <<policy_, r_mode, r_retryable, r_ops, r_delays, r_predCalls,
                   stopInBackoff>>
    /\ UNCHANGED <<dispVars, clientVars, serverVars, pktVars, backoffVars, orchVars>>

\* mutant: the co_return is missing and the loop goes on after a success
LoopsOnAfterSuccess(a, res) == LoopHead(a + 1, res)

\* `co_return result;` in the try block: the coroutine ends with outcome res
ReturnOnSuccess(a, res) ==
    /\ result' = res
    /\ rpc' = "done"
    /\ UNCHANGED <<attempt, r_invocations>>

\* The awaited operation returns: the outcome is returned at once.
OpSucceeds ==
    /\ rpc = "invoking"
    /\ r_ops' = Append(r_ops, "ok")
    /\ ReturnOnSuccess(attempt, StoreSuccess(result, r_mode))
    /\ UNCHANGED <<policy_, r_mode, r_retryable, r_delays, r_predCalls,
                   stopInBackoff>>
    /\ UNCHANGED <<dispVars, clientVars, serverVars, pktVars, backoffVars, orchVars>>

\* The catch block of member m, whose predicate holds of the errors in
\* `retryable`, entered with the error e.
CatchBlock(m, retryable, e) ==
    LET res == StoreError(result, e)
    IN  IF NonRetryable(m, e, retryable)
        THEN /\ result' = res
             /\ rpc' = "done"
             /\ UNCHANGED <<attempt, r_invocations, r_delays>>
        ELSE IF ShouldDelay(attempt, policy_)
        THEN \E delay \in delay_for(policy_, attempt) :
                 /\ result' = AddDelay(res, delay)
                 /\ r_delays' = Append(r_delays, delay)
                 /\ rpc' = "waiting"
                 /\ UNCHANGED <<attempt, r_invocations>>
        ELSE /\ LoopHead(attempt + 1, res)
             /\ UNCHANGED r_delays

\* The awaited operation throws e: the catch block.
OpFails(e) ==
    /\ rpc = "invoking"
    /\ r_ops' = Append(r_ops, e)
    /\ r_predCalls' = IF IsExecuteIf(r_mode) THEN r_predCalls + 1 ELSE r_predCalls
    /\ CatchBlock(r_mode, r_retryable, e)
    /\ UNCHANGED <<policy_, r_mode, r_retryable, stopInBackoff>>
    /\ UNCHANGED <<dispVars, clientVars, serverVars, pktVars, backoffVars, orchVars>>

\* timer.async_wait completes: ++attempt and back to the head of the loop.
TimerExpires ==
    /\ rpc = "waiting"
    /\ LoopHead(attempt + 1, result)
    /\ UNCHANGED <<policy_, r_mode, r_retryable, r_ops, r_delays, r_predCalls,
                   stopInBackoff>>
    /\ UNCHANGED <<dispVars, clientVars, serverVars, pktVars, backoffVars, orchVars>>

-----------------------------------------------------------------------------
(* Urgency, Packet and the dispatchers *)

\* enum class Urgency : std::uint8_t
Green  == 0
Yellow == 1
Red    == 2

\* every value of the underlying type std::uint8_t
UrgencyValues == 0..255

Payloads == {"", "ping"}

\* Packet(payload, urgency)
Packet(data, u) == [payload |-> data, urgency |-> u]

Packets == { Packet(data, u) : data \in Payloads, u \in UrgencyValues }

\* to_string(Urgency)
to_string(u) ==
    LET names == <<"GREEN", "YELLOW", "RED">>
    IN  IF u < Len(names) THEN names[u + 1] ELSE "UNKNOWN"

\* What one call of dispatch did: the hooks it invoked (in order), the lines
\* it gave to its logging policy, and whether it raised.
Call(hook, pkt) == [hook |-> hook, payload |-> pkt.payload]

\* mutant: the `break` after on_urgent is missing and control falls through
PacketDispatcherFallsThrough(pkt) ==
    [logs   |-> <<"Dispatching packet, urgency=" \o to_string(pkt.urgency)>>,
     hooks  |-> IF pkt.urgency \in {Red, Yellow}
                THEN <<Call("on_urgent", pkt), Call("on_normal", pkt)>>
                ELSE <<Call("on_normal", pkt)>>,
     raised |-> FALSE]

\* PacketDispatcher::dispatch
PacketDispatcherDispatch(pkt) ==
    [logs   |-> <<"Dispatching packet, urgency=" \o to_string(pkt.urgency)>>,
     hooks  |-> CASE pkt.urgency = Red    -> <<Call("on_urgent", pkt)>>
                  [] pkt.urgency = Yellow -> <<Call("on_urgent", pkt)>>
                  [] pkt.urgency = Green  -> <<Call("on_normal", pkt)>>
                  [] OTHER                -> <<Call("on_normal", pkt)>>,
     raised |-> FALSE]

\* mutant: an urgency that is no enumerator is rejected (fail-loud)
ProtocolAPIFailsLoud(pkt) ==
    IF pkt.urgency \in {Green, Yellow, Red}
    THEN [logs   |-> <<>>,
          hooks  |-> <<Call(IF pkt.urgency = Green THEN "on_normal" ELSE "on_urgent", pkt)>>,
          raised |-> FALSE]
    ELSE [logs |-> <<>>, hooks |-> <<>>, raised |-> TRUE]

\* ProtocolAPI::dispatch(pkt, handler)
ProtocolAPIDispatch(pkt) ==
    [logs   |-> <<>>,
     hooks  |-> CASE pkt.urgency = Red    -> <<Call("on_urgent", pkt)>>
                  [] pkt.urgency = Yellow -> <<Call("on_urgent", pkt)>>
                  [] OTHER                -> <<Call("on_normal", pkt)>>,
     raised |-> FALSE]

Apis == {"PacketDispatcher", "ProtocolAPI"}

dispatch(api, pkt) ==
    IF api = "PacketDispatcher" THEN PacketDispatcherDispatch(pkt)
    ELSE ProtocolAPIDispatch(pkt)

\* dispatch is called on the packet at hand
DispatchCall ==
    /\ d_pc = "ready"
    /\ LET r == dispatch(d_api, d_pkt)
       IN  /\ d_hooks' = r.hooks
           /\ d_logs' = r.logs
           /\ d_raised' = r.raised
    /\ d_pc' = "dispatched"
    /\ UNCHANGED <<d_api, d_pkt>>
    /\ UNCHANGED <<retryVars, clientVars, serverVars, pktVars, backoffVars, orchVars>>

\* the caller builds another packet for another dispatcher
NextPacket ==
    /\ d_pc = "dispatched"
    /\ d_api' \in Apis
    /\ d_pkt' \in Packets
    /\ d_pc' = "ready"
    /\ d_hooks' = <<>>
    /\ d_logs' = <<>>
    /\ d_raised' = FALSE
    /\ UNCHANGED <<retryVars, clientVars, serverVars, pktVars, backoffVars, orchVars>>

-----------------------------------------------------------------------------
(* The public interface of one Packet object *)

\* the enumerators of Urgency
Enumerators == {Green, Yellow, Red}

\* Packet::urgency
urgency(p) == p.urgency

\* Packet::set_urgency
SetUrgency(u) ==
    /\ packet' = [packet EXCEPT !.urgency = u]
    /\ UNCHANGED packet_given
    /\ UNCHANGED <<retryVars, dispVars, clientVars, serverVars, backoffVars, orchVars>>

\* Packet::set_payload
SetPayload(data) ==
    /\ packet' = [packet EXCEPT !.payload = data]
    /\ UNCHANGED packet_given
    /\ UNCHANGED <<retryVars, dispVars, clientVars, serverVars, backoffVars, orchVars>>

\* the packets assigned from: every payload, the enumerators and the largest
\* value of the underlying type
AssignSources == { Packet(data, u) : data \in Payloads, u \in Enumerators \cup {255} }

\* Packet::operator=(const Packet&), Packet::operator=(Packet&&)
PacketAssign(other) ==
    /\ packet' = other
    /\ UNCHANGED packet_given
    /\ UNCHANGED <<retryVars, dispVars, clientVars, serverVars, backoffVars, orchVars>>

-----------------------------------------------------------------------------
(* WSClient: start, stop and the run_session coroutine *)

MaxStarts  == 2
MaxInbound == 2

InitialMessages == {"HELLO"}

\* the suspension points of run_session whose failure throws (use_awaitable)
ConnectPhases == <<"resolve", "connect", "ssl_handshake", "ws_handshake", "write">>

ThrowingPcs == { ConnectPhases[i] : i \in 1..Len(ConnectPhases) }

\* mutant: the WebSocket handshake is issued right after the TCP connect
NextPhaseSkipsTls(pc) ==
    CASE pc = "resolve"       -> "connect"
      [] pc = "connect"       -> "ws_handshake"
      [] pc = "ssl_handshake" -> "ws_handshake"
      [] OTHER                -> "write"

\* the co_await that follows the one at position pc in the connect phase
NextPhase(pc) ==
    CHOOSE q \in ThrowingPcs :
        \E i \in 1..(Len(ConnectPhases) - 1) :
            ConnectPhases[i] = pc /\ ConnectPhases[i + 1] = q

\* mutant: the read loop is entered whatever the flag says
ReadLoopEntered(running) == "read"

\* mutant: the loop condition is negated
ReadLoopWhileStopped(running) == IF running THEN "close" ELSE "read"

\* `while (running_.load(...))`: the head of the read loop issues the next
\* async_read, or leaves the loop and issues async_close
ReadLoopHead(running) == IF running THEN "read" ELSE "close"

SessionIds == 1..MaxStarts

Live(s) == s \in DOMAIN sessions

\* `running_.load(...)` by a coroutine: the stored value, or, once the object
\* has been destroyed, whatever the dangling read yields
ReadFlag(flag, destroyed) == IF destroyed THEN BOOLEAN ELSE {flag}

\* `asio::co_spawn(ioc_, run_session(initial_message), asio::detached)`: the
\* new coroutine; with the completion token asio::detached the way the
\* coroutine ends is delivered to no one, so `completion` stays "none".
\* `completed` lists the co_awaits of the connect phase that have returned
\* without error, `reads` counts the async_read calls issued by the read
\* loop and `received` lists the messages async_read has delivered.
NewSession(msg) ==
    [pc |-> "spawned", initial |-> msg, sent |-> <<>>, completion |-> "none",
     completed |-> <<>>, reads |-> 0, received |-> <<>>]

\* WSClient::start
Start(msg) ==
    /\ ~client_destroyed
    /\ Len(sessions) < MaxStarts
    /\ client_running' = TRUE
    /\ sessions' = Append(sessions, NewSession(msg))
    /\ UNCHANGED <<inbound, c_normal, c_urgent>>
    /\ UNCHANGED <<client_destroyed, client_moved, retryVars, dispVars, serverVars, pktVars,
                   backoffVars, orchVars>>

\* `running_.store(false, ...)` of WSClient::stop: the flag after the call
WSClientStop(running) == FALSE

\* WSClient::stop
Stop ==
    /\ ~client_destroyed
    /\ client_running' = WSClientStop(client_running)
    /\ stopInBackoff' = (stopInBackoff \/ (rpc = "waiting" /\ r_delays[Len(r_delays)] > 0))
    /\ UNCHANGED <<sessions, inbound, c_normal, c_urgent>>
    /\ UNCHANGED <<policy_, r_mode, r_retryable, rpc, attempt, result,
                   r_invocations, r_ops, r_delays, r_predCalls>>
    /\ UNCHANGED <<client_destroyed, client_moved, dispVars, serverVars, pktVars, backoffVars, orchVars>>

\* the io_context runs the spawned coroutine up to async_resolve
SessionRuns(s) ==
    /\ Live(s)
    /\ sessions[s].pc = "spawned"
    /\ sessions' = [sessions EXCEPT ![s].pc = "resolve"]
    /\ UNCHANGED <<client_running, inbound, c_normal, c_urgent>>
    /\ UNCHANGED <<client_destroyed, client_moved, retryVars, dispVars, serverVars, pktVars,
                   backoffVars, orchVars>>

\* resolve, connect or a handshake completes without error
PhaseSucceeds(s) ==
    /\ Live(s)
    /\ sessions[s].pc \in ThrowingPcs \ {"write"}
    /\ LET next == NextPhase(sessions[s].pc)
       IN  sessions' =
             IF next = "write"
             THEN [sessions EXCEPT ![s].pc = "write",
                     ![s].completed = Append(@, sessions[s].pc),
                     ![s].sent = Append(@, Packet(sessions[s].initial, Green).payload)]
             ELSE [sessions EXCEPT ![s].pc = next,
                     ![s].completed = Append(@, sessions[s].pc)]
    /\ UNCHANGED <<client_running, inbound, c_normal, c_urgent>>
    /\ UNCHANGED <<client_destroyed, client_moved, retryVars, dispVars, serverVars, pktVars,
                   backoffVars, orchVars>>

\* the write of the initial message completes: the read loop is entered
WriteSucceeds(s) ==
    /\ Live(s)
    /\ sessions[s].pc = "write"
    /\ \E f \in ReadFlag(client_running, client_destroyed) :
           sessions' = [sessions EXCEPT
                           ![s].pc = ReadLoopHead(f),
                           ![s].completed = Append(@, "write"),
                           ![s].reads = IF ReadLoopHead(f) = "read"
                                        THEN @ + 1 ELSE @]
    /\ UNCHANGED <<client_running, inbound, c_normal, c_urgent>>
    /\ UNCHANGED <<client_destroyed, client_moved, retryVars, dispVars, serverVars, pktVars,
                   backoffVars, orchVars>>

\* a co_await of the connect phase throws: the catch block logs and the
\* coroutine ends
PhaseFails(s) ==
    /\ Live(s)
    /\ sessions[s].pc \in ThrowingPcs
    /\ sessions' = [sessions EXCEPT ![s].pc = "failed"]
    /\ UNCHANGED <<client_running, inbound, c_normal, c_urgent>>
    /\ UNCHANGED <<client_destroyed, client_moved, retryVars, dispVars, serverVars, pktVars,
                   backoffVars, orchVars>>

\* mutant: the urgency is taken from the bytes of the message
InboundPacketByContent(msg) == Packet(msg, IF msg = "" THEN Green ELSE Red)

\* `api_.make_packet(msg, protocol::Urgency::Green)` of either read loop
InboundPacket(msg) == Packet(msg, Green)

\* mutant: a message with an empty payload is not handed to the hook
HookPayloadsSkipsEmpty(hooks, name) ==
    LET idx == { i \in 1..Len(hooks) : hooks[i].hook = name /\ hooks[i].payload # "" }
    IN  IF idx = {} THEN <<>> ELSE <<hooks[CHOOSE i \in idx : TRUE].payload>>

\* the payloads the hook `name` of the endpoint is invoked with by one dispatch
HookPayloads(hooks, name) ==
    LET idx == { i \in 1..Len(hooks) : hooks[i].hook = name }
    IN  IF idx = {} THEN <<>> ELSE <<hooks[CHOOSE i \in idx : TRUE].payload>>

\* async_read completes with a message: it is wrapped into a Green packet
\* and dispatched to *this, then the loop head runs
ReadMessage(s, msg) ==
    /\ Live(s)
    /\ sessions[s].pc = "read"
    /\ inbound < MaxInbound
    /\ inbound' = inbound + 1
    /\ LET r == ProtocolAPIDispatch(InboundPacket(msg))
       IN  /\ c_normal' = c_normal \o HookPayloads(r.hooks, "on_normal")
           /\ c_urgent' = c_urgent \o HookPayloads(r.hooks, "on_urgent")
    /\ \E f \in ReadFlag(client_running, client_destroyed) :
           sessions' = [sessions EXCEPT
                           ![s].pc = ReadLoopHead(f),
                           ![s].reads = IF ReadLoopHead(f) = "read"
                                        THEN @ + 1 ELSE @,
                           ![s].received = Append(@, msg)]
    /\ UNCHANGED client_running
    /\ UNCHANGED <<client_destroyed, client_moved, retryVars, dispVars, serverVars, pktVars,
                   backoffVars, orchVars>>

\* async_read completes with an error code (closed or any other): break
ReadError(s) ==
    /\ Live(s)
    /\ sessions[s].pc = "read"
    /\ sessions' = [sessions EXCEPT ![s].pc = "close"]
    /\ UNCHANGED <<client_running, inbound, c_normal, c_urgent>>
    /\ UNCHANGED <<client_destroyed, client_moved, retryVars, dispVars, serverVars, pktVars,
                   backoffVars, orchVars>>

\* mutant: the session clears the liveness flag when it ends
CloseCompletesClearsFlag(s) ==
    /\ Live(s)
    /\ sessions[s].pc = "close"
    /\ sessions' = [sessions EXCEPT ![s].pc = "done"]
    /\ client_running' = FALSE
    /\ UNCHANGED <<inbound, c_normal, c_urgent>>
    /\ UNCHANGED <<client_destroyed, client_moved, retryVars, dispVars, serverVars, pktVars,
                   backoffVars, orchVars>>

\* async_close completes (as_tuple: with or without error): the coroutine ends
CloseCompletes(s) ==
    /\ Live(s)
    /\ sessions[s].pc = "close"
    /\ sessions' = [sessions EXCEPT ![s].pc = "done"]
    /\ UNCHANGED <<client_running, inbound, c_normal, c_urgent>>
    /\ UNCHANGED <<client_destroyed, client_moved, retryVars, dispVars, serverVars, pktVars,
                   backoffVars, orchVars>>

\* mutant: the destructor does not stop a running client
WSClientDestructorKeepsFlag(running) == running

\* WSClient::~WSClient: `if (running_.load(...)) stop();`, the flag afterwards
WSClientDestructor(running) ==
    IF running THEN WSClientStop(running) ELSE running

\* the owner destroys the WSClient: the destructor returns at once, whatever
\* the detached coroutines are suspended in
ClientDestroy ==
    /\ ~client_destroyed
    /\ client_running' = WSClientDestructor(client_running)
    /\ client_destroyed' = TRUE
    /\ UNCHANGED <<sessions, inbound, c_normal, c_urgent, client_moved>>
    /\ UNCHANGED <<retryVars, dispVars, serverVars, pktVars, backoffVars, orchVars>>

\* the suspension points of run_session
SuspendedPcs == ThrowingPcs \cup {"read", "close"}

\* a coroutine resumes on the destroyed object (cfg_, ssl_ctx_, api_, *this
\* are dangling): besides going on as if the object were there, the process
\* may fault
ResumesOnDeadClient(s) ==
    /\ Live(s)
    /\ client_destroyed
    /\ sessions[s].pc \in SuspendedPcs \cup {"spawned"}
    /\ sessions' = [sessions EXCEPT ![s].pc = "crashed"]
    /\ UNCHANGED <<client_running, inbound, c_normal, c_urgent>>
    /\ UNCHANGED <<client_destroyed, client_moved, retryVars, dispVars, serverVars, pktVars,
                   backoffVars, orchVars>>

\* `running_{other.running_.exchange(false)}`: the flag of the source after
\* it has been moved from
WSClientMovedFrom(running) == FALSE

\* WSClient::WSClient(WSClient&&) or operator=(WSClient&&) of another object
\* with this object as `other`: ssl_ctx_ is exchanged for nullptr, cfg_ is
\* moved out and running_ is exchanged for false; the coroutines keep `this`
ClientMovedFrom ==
    /\ ~client_destroyed
    /\ ~client_moved
    /\ client_running' = WSClientMovedFrom(client_running)
    /\ client_moved' = TRUE
    /\ UNCHANGED <<sessions, inbound, c_normal, c_urgent, client_destroyed>>
    /\ UNCHANGED <<retryVars, dispVars, serverVars, pktVars, backoffVars, orchVars>>

\* WSClient::operator=(WSClient&&): `if (running_.load()) stop();`, then
\* `running_.store(other.running_.exchange(false))`: the flag afterwards
WSClientMoveAssign(running, other) ==
    LET stopped == IF running THEN WSClientStop(running) ELSE running
    IN  other

\* WSClient::operator=(WSClient&&) on this object, from a constructed object
\* whose flag is `other`: its ssl_ctx_ and cfg_ replace the ones held
ClientMoveAssigned(other) ==
    /\ ~client_destroyed
    /\ client_running' = WSClientMoveAssign(client_running, other)
    /\ client_moved' = FALSE
    /\ UNCHANGED <<sessions, inbound, c_normal, c_urgent, client_destroyed>>
    /\ UNCHANGED <<retryVars, dispVars, serverVars, pktVars, backoffVars, orchVars>>

\* `ssl::stream<tcp::socket> ssl_stream{ioc_, *ssl_ctx_}` after async_resolve
\* on an object that has been moved from dereferences a null unique_ptr:
\* besides going on (PhaseSucceeds), the process may fault
NullContextFaults(s) ==
    /\ Live(s)
    /\ client_moved
    /\ sessions[s].pc = "resolve"
    /\ sessions' = [sessions EXCEPT ![s].pc = "crashed"]
    /\ UNCHANGED <<client_running, inbound, c_normal, c_urgent>>
    /\ UNCHANGED <<client_destroyed, client_moved, retryVars, dispVars, serverVars, pktVars,
                   backoffVars, orchVars>>

-----------------------------------------------------------------------------
(* WSServer: run, stop, the accept_loop and handle_session coroutines *)

MaxRuns       == 2
MaxConns      == 2
MaxSrvInbound == 2

LoopIds    == 1..MaxRuns
SrvSessIds == 1..MaxConns

\* mutant: stop() calls the throwing acceptor_.cancel() before the close;
\* cancelling an acceptor that is not open throws bad_descriptor
WSServerStopCancels(st) ==
    [running |-> FALSE, open |-> FALSE, raised |-> ~st.open]

\* WSServer::stop on a server whose flag and acceptor are st: the flag is
\* cleared and acceptor_.close(ec) closes the acceptor; close(ec) does not
\* throw, and an error it reports is only printed
WSServerStop(st) ==
    [running |-> FALSE, open |-> FALSE, raised |-> FALSE]

\* the flag and the acceptor of the WSServer object
ServerState == [running |-> server_running, open |-> acceptor_open]

\* WSServer::run
ServerRun ==
    /\ ~server_destroyed
    /\ Len(accept_loops) < MaxRuns
    /\ server_running' = TRUE
    /\ accept_loops' = Append(accept_loops, "spawned")
    /\ UNCHANGED <<acceptor_open, srv_sessions, s_inbound, s_normal, s_urgent,
                   s_stops, server_destroyed>>
    /\ UNCHANGED <<retryVars, dispVars, clientVars, pktVars, backoffVars, orchVars>>

\* WSServer::stop
ServerStop ==
    /\ ~server_destroyed
    /\ LET r == WSServerStop(ServerState)
       IN  /\ server_running' = r.running
           /\ acceptor_open' = r.open
    /\ s_stops' = Min(s_stops + 1, 2)
    /\ UNCHANGED <<accept_loops, srv_sessions, s_inbound, s_normal, s_urgent,
                   server_destroyed>>
    /\ UNCHANGED <<retryVars, dispVars, clientVars, pktVars, backoffVars, orchVars>>

\* mutant: accept_loop does not test the flag
AcceptLoopForever(running) == "accept"

\* `while (running_.load(...))` of accept_loop: the next async_accept is
\* issued, or the coroutine ends
AcceptLoopHead(running) == IF running THEN "accept" ELSE "done"

LiveLoop(l) == l \in DOMAIN accept_loops

\* the io_context runs the spawned accept_loop up to its first async_accept
AcceptLoopRuns(l) ==
    /\ LiveLoop(l)
    /\ accept_loops[l] = "spawned"
    /\ \E f \in ReadFlag(server_running, server_destroyed) :
           accept_loops' = [accept_loops EXCEPT ![l] = AcceptLoopHead(f)]
    /\ UNCHANGED <<server_running, acceptor_open, srv_sessions, s_inbound,
                   s_normal, s_urgent, s_stops, server_destroyed>>
    /\ UNCHANGED <<retryVars, dispVars, clientVars, pktVars, backoffVars, orchVars>>

\* a freshly co_spawned handle_session coroutine
NewSrvSession ==
    [pc |-> "spawned", completed |-> <<>>, received |-> <<>>, echoed |-> <<>>]

\* async_accept completes with a socket: handle_session is spawned for it and
\* the loop head runs
AcceptCompletes(l) ==
    /\ LiveLoop(l)
    /\ accept_loops[l] = "accept"
    /\ acceptor_open
    /\ Len(srv_sessions) < MaxConns
    /\ srv_sessions' = Append(srv_sessions, NewSrvSession)
    /\ \E f \in ReadFlag(server_running, server_destroyed) :
           accept_loops' = [accept_loops EXCEPT ![l] = AcceptLoopHead(f)]
    /\ UNCHANGED <<server_running, acceptor_open, s_inbound, s_normal, s_urgent,
                   s_stops, server_destroyed>>
    /\ UNCHANGED <<retryVars, dispVars, clientVars, pktVars, backoffVars, orchVars>>

\* async_accept completes with an error code (the acceptor was closed, or
\* any other error): `continue`, the loop head runs
AcceptFails(l) ==
    /\ LiveLoop(l)
    /\ accept_loops[l] = "accept"
    /\ \E f \in ReadFlag(server_running, server_destroyed) :
           accept_loops' = [accept_loops EXCEPT ![l] = AcceptLoopHead(f)]
    /\ UNCHANGED <<server_running, acceptor_open, srv_sessions, s_inbound,
                   s_normal, s_urgent, s_stops, server_destroyed>>
    /\ UNCHANGED <<retryVars, dispVars, clientVars, pktVars, backoffVars, orchVars>>

\* `acceptor_.close(ec)` of stop() cancels the async_accept that is pending:
\* its completion, with an error code, is queued on the io_context
AcceptAborted(l) == ~acceptor_open /\ AcceptFails(l)

\* `while (running_.load(...))` of handle_session: the next async_read is
\* issued, or the loop is left and the coroutine ends
SrvReadLoopHead(running) == IF running THEN "read" ELSE "done"

LiveSrv(s) == s \in DOMAIN srv_sessions

\* the handshakes handle_session awaits before its read loop
SrvConnectPhases == <<"ssl_handshake", "ws_accept">>

\* the co_awaits of handle_session whose failure throws (use_awaitable)
SrvThrowingPcs == {"ssl_handshake", "ws_accept", "write"}

\* the io_context runs the spawned handle_session up to the TLS handshake
SrvSessionRuns(s) ==
    /\ LiveSrv(s)
    /\ srv_sessions[s].pc = "spawned"
    /\ srv_sessions' = [srv_sessions EXCEPT ![s].pc = "ssl_handshake"]
    /\ UNCHANGED <<server_running, acceptor_open, accept_loops, s_inbound,
                   s_normal, s_urgent, s_stops, server_destroyed>>
    /\ UNCHANGED <<retryVars, dispVars, clientVars, pktVars, backoffVars, orchVars>>

\* the TLS handshake completes: the WebSocket accept is issued
SrvHandshakeSucceeds(s) ==
    /\ LiveSrv(s)
    /\ srv_sessions[s].pc = "ssl_handshake"
    /\ srv_sessions' = [srv_sessions EXCEPT ![s].pc = "ws_accept",
                                            ![s].completed = Append(@, "ssl_handshake")]
    /\ UNCHANGED <<server_running, acceptor_open, accept_loops, s_inbound,
                   s_normal, s_urgent, s_stops, server_destroyed>>
    /\ UNCHANGED <<retryVars, dispVars, clientVars, pktVars, backoffVars, orchVars>>

\* ws.async_accept completes: the session is open and the read loop is entered
SrvAcceptSucceeds(s) ==
    /\ LiveSrv(s)
    /\ srv_sessions[s].pc = "ws_accept"
    /\ \E f \in ReadFlag(server_running, server_destroyed) :
           srv_sessions' = [srv_sessions EXCEPT ![s].pc = SrvReadLoopHead(f),
                                                ![s].completed = Append(@, "ws_accept")]
    /\ UNCHANGED <<server_running, acceptor_open, accept_loops, s_inbound,
                   s_normal, s_urgent, s_stops, server_destroyed>>
    /\ UNCHANGED <<retryVars, dispVars, clientVars, pktVars, backoffVars, orchVars>>

\* the coroutines of the server: the accept loops and the sessions
ServerCoroutines == [loops |-> accept_loops, sessions |-> srv_sessions]

\* mutant: the failure of session s is not contained by a catch block and
\* takes every coroutine of the server down with it
HandleSessionRethrows(co, s) ==
    [loops    |-> [l \in DOMAIN co.loops |-> "crashed"],
     sessions |-> [t \in DOMAIN co.sessions |->
                      [co.sessions[t] EXCEPT
                          !.pc = IF t = s THEN "failed" ELSE "crashed"]]]

\* `catch (const std::exception& e)` of handle_session: the exception thrown
\* in session s is logged and that coroutine ends; nothing else is touched
HandleSessionCatch(co, s) ==
    [loops    |-> co.loops,
     sessions |-> [co.sessions EXCEPT ![s].pc = "failed"]]

\* a handshake or the echo write throws: the catch block logs and the
\* coroutine ends
SrvPhaseFails(s) ==
    /\ LiveSrv(s)
    /\ srv_sessions[s].pc \in SrvThrowingPcs
    /\ LET r == HandleSessionCatch(ServerCoroutines, s)
       IN  /\ srv_sessions' = r.sessions
           /\ accept_loops' = r.loops
    /\ UNCHANGED <<server_running, acceptor_open, s_inbound,
                   s_normal, s_urgent, s_stops, server_destroyed>>
    /\ UNCHANGED <<retryVars, dispVars, clientVars, pktVars, backoffVars, orchVars>>

\* async_read completes with a message: it is wrapped into a Green packet and
\* dispatched to *this, then the echo write is issued
SrvReadMessage(s, msg) ==
    /\ LiveSrv(s)
    /\ srv_sessions[s].pc = "read"
    /\ s_inbound < MaxSrvInbound
    /\ s_inbound' = s_inbound + 1
    /\ LET r == ProtocolAPIDispatch(InboundPacket(msg))
       IN  /\ s_normal' = s_normal \o HookPayloads(r.hooks, "on_normal")
           /\ s_urgent' = s_urgent \o HookPayloads(r.hooks, "on_urgent")
    /\ srv_sessions' = [srv_sessions EXCEPT ![s].pc = "write",
                                            ![s].received = Append(@, msg)]
    /\ UNCHANGED <<server_running, acceptor_open, accept_loops, s_stops,
                   server_destroyed>>
    /\ UNCHANGED <<retryVars, dispVars, clientVars, pktVars, backoffVars, orchVars>>

\* async_read completes with an error code (closed or any other): break, the
\* coroutine ends
SrvReadError(s) ==
    /\ LiveSrv(s)
    /\ srv_sessions[s].pc = "read"
    /\ srv_sessions' = [srv_sessions EXCEPT ![s].pc = "done"]
    /\ UNCHANGED <<server_running, acceptor_open, accept_loops, s_inbound,
                   s_normal, s_urgent, s_stops, server_destroyed>>
    /\ UNCHANGED <<retryVars, dispVars, clientVars, pktVars, backoffVars, orchVars>>

\* mutant: the message is written to the peer twice
EchoResponseTwice(echoed, msg) == Append(Append(echoed, msg), msg)

\* `co_await ws.async_write(asio::buffer(msg), ...)`: the bytes of msg, the
\* string the read produced, go to the peer as one message
EchoResponse(echoed, msg) == Append(echoed, msg)

\* the echo write of the message just read completes: the loop head runs
SrvEchoCompletes(s) ==
    /\ LiveSrv(s)
    /\ srv_sessions[s].pc = "write"
    /\ \E f \in ReadFlag(server_running, server_destroyed) :
           srv_sessions' =
               [srv_sessions EXCEPT
                   ![s].pc = SrvReadLoopHead(f),
                   ![s].echoed = EchoResponse(@, srv_sessions[s].received[
                                                 Len(srv_sessions[s].received)])]
    /\ UNCHANGED <<server_running, acceptor_open, accept_loops, s_inbound,
                   s_normal, s_urgent, s_stops, server_destroyed>>
    /\ UNCHANGED <<retryVars, dispVars, clientVars, pktVars, backoffVars, orchVars>>

\* WSServer::~WSServer: `if (running_.load(...)) stop();`, then the members
\* are destroyed and the acceptor's destructor closes it
WSServerDestructor(st) ==
    [running |-> IF st.running THEN WSServerStop(st).running ELSE st.running,
     open    |-> FALSE]

\* the owner destroys the WSServer: the destructor returns at once, whatever
\* the detached coroutines are suspended in
ServerDestroy ==
    /\ ~server_destroyed
    /\ LET r == WSServerDestructor(ServerState)
       IN  /\ server_running' = r.running
           /\ acceptor_open' = r.open
    /\ s_stops' = IF server_running THEN Min(s_stops + 1, 2) ELSE s_stops
    /\ server_destroyed' = TRUE
    /\ UNCHANGED <<accept_loops, srv_sessions, s_inbound, s_normal, s_urgent>>
    /\ UNCHANGED <<retryVars, dispVars, clientVars, pktVars, backoffVars, orchVars>>

\* the suspension points of handle_session
SrvSuspendedPcs == SrvThrowingPcs \cup {"read"}

\* a handle_session coroutine resumes on the destroyed object (ssl_ctx_, api_,
\* running_, *this are dangling): besides going on as if the object were
\* there, the process may fault
ResumesOnDeadServer(s) ==
    /\ LiveSrv(s)
    /\ server_destroyed
    /\ srv_sessions[s].pc \in SrvSuspendedPcs \cup {"spawned"}
    /\ srv_sessions' = [srv_sessions EXCEPT ![s].pc = "crashed"]
    /\ UNCHANGED <<server_running, acceptor_open, accept_loops, s_inbound,
                   s_normal, s_urgent, s_stops, server_destroyed>>
    /\ UNCHANGED <<retryVars, dispVars, clientVars, pktVars, backoffVars, orchVars>>

\* the accept_loop coroutine resumes on the destroyed object (acceptor_,
\* running_ are dangling)
AcceptLoopOnDeadServer(l) ==
    /\ LiveLoop(l)
    /\ server_destroyed
    /\ accept_loops[l] \in {"spawned", "accept"}
    /\ accept_loops' = [accept_loops EXCEPT ![l] = "crashed"]
    /\ UNCHANGED <<server_running, acceptor_open, srv_sessions, s_inbound,
                   s_normal, s_urgent, s_stops, server_destroyed>>
    /\ UNCHANGED <<retryVars, dispVars, clientVars, pktVars, backoffVars, orchVars>>

-----------------------------------------------------------------------------
(* The orchestrator: Application::run, run_server and run_client *)

\* signal_handler: `g_running.store(false, ...)`
Signal ==
    /\ g_running
    /\ g_running' = FALSE
    /\ UNCHANGED <<main_pc, server_thread, client_thread>>
    /\ UNCHANGED <<retryVars, dispVars, clientVars, serverVars, pktVars, backoffVars>>

\* `std::thread server_thread(...)`, then the main thread sleeps 500 ms
MainStartsServer ==
    /\ main_pc = "start"
    /\ server_thread' = "created"
    /\ main_pc' = "sleeping"
    /\ UNCHANGED <<g_running, client_thread>>
    /\ UNCHANGED <<retryVars, dispVars, clientVars, serverVars, pktVars, backoffVars>>

\* `std::thread client_thread(...)`, then the main thread polls g_running
MainStartsClient ==
    /\ main_pc = "sleeping"
    /\ client_thread' = "created"
    /\ main_pc' = "waiting"
    /\ UNCHANGED <<g_running, server_thread>>
    /\ UNCHANGED <<retryVars, dispVars, clientVars, serverVars, pktVars, backoffVars>>

\* mutant: the loop is left only when the flag is set
PollLoopInverted(running, inside, outside) == IF running THEN outside ELSE inside

\* `while (g_running.load(...))` of any of the three threads: the position
\* after the test
PollLoop(running, inside, outside) == IF running THEN inside ELSE outside

\* the main thread wakes from sleep_for(100 ms) and tests g_running
MainPolls ==
    /\ main_pc = "waiting"
    /\ main_pc' = PollLoop(g_running, "waiting", "join_server")
    /\ UNCHANGED <<g_running, server_thread, client_thread>>
    /\ UNCHANGED <<retryVars, dispVars, clientVars, serverVars, pktVars, backoffVars>>

\* `server_thread.join()` returns once the thread has ended
MainJoinsServer ==
    /\ main_pc = "join_server"
    /\ server_thread = "ended"
    /\ server_thread' = "joined"
    /\ main_pc' = "join_client"
    /\ UNCHANGED <<g_running, client_thread>>
    /\ UNCHANGED <<retryVars, dispVars, clientVars, serverVars, pktVars, backoffVars>>

\* `client_thread.join()` returns once the thread has ended, and run returns
\* EXIT_SUCCESS
MainJoinsClient ==
    /\ main_pc = "join_client"
    /\ client_thread = "ended"
    /\ client_thread' = "joined"
    /\ main_pc' = "EXIT_SUCCESS"
    /\ UNCHANGED <<g_running, server_thread>>
    /\ UNCHANGED <<retryVars, dispVars, clientVars, serverVars, pktVars, backoffVars>>

\* from_env_defaults and WSServer::create return, or one of them throws (a
\* certificate file that cannot be loaded, a port that cannot be bound): the
\* catch block of run_server prints and the thread ends
ServerThreadConstructs ==
    /\ server_thread = "created"
    /\ server_thread' \in {"constructed", "ended"}
    /\ UNCHANGED <<g_running, main_pc, client_thread>>
    /\ UNCHANGED <<retryVars, dispVars, clientVars, serverVars, pktVars, backoffVars>>

\* `server->run();`
ServerThreadRuns ==
    /\ server_thread = "constructed"
    /\ accept_loops = <<>>
    /\ ServerRun

\* the first test of g_running after run(), or ioc.run_for(50 ms) returns
\* and g_running is tested again
ServerThreadPolls ==
    /\ \/ server_thread = "constructed" /\ accept_loops # <<>>
       \/ server_thread = "polling"
    /\ server_thread' = PollLoop(g_running, "polling", "left")
    /\ UNCHANGED <<g_running, main_pc, client_thread>>
    /\ UNCHANGED <<retryVars, dispVars, clientVars, serverVars, pktVars, backoffVars>>

\* mutant: the io_context is also run after the loop, until the thread ends
IoContextRunsToEnd(thread) == thread \in {"polling", "left"}

\* the thread is inside ioc.run_for: only there are the coroutines of its
\* io_context resumed
IoContextRuns(thread) == thread = "polling"

\* ioc.run_for of the server thread resumes a coroutine that is ready
ServerIoContextWork ==
    /\ IoContextRuns(server_thread)
    /\ \/ \E l \in LoopIds :
             AcceptLoopRuns(l) \/ AcceptCompletes(l) \/ AcceptFails(l)
       \/ \E s \in SrvSessIds :
             \/ SrvSessionRuns(s)
             \/ SrvHandshakeSucceeds(s)
             \/ SrvAcceptSucceeds(s)
             \/ SrvPhaseFails(s)
             \/ \E msg \in Payloads : SrvReadMessage(s, msg)
             \/ SrvReadError(s)
             \/ SrvEchoCompletes(s)

\* `server->stop();` after the loop
ServerThreadStops ==
    /\ server_thread = "left"
    /\ s_stops = 0
    /\ ServerStop

\* the end of the try block: `server` is destroyed, then `ioc`, which
\* destroys the suspended coroutines without resuming them
ServerThreadDestroys ==
    /\ server_thread = "left"
    /\ s_stops > 0
    /\ ServerDestroy

\* run_server returns and the thread ends
ServerThreadEnds ==
    /\ server_thread = "left"
    /\ server_destroyed
    /\ server_thread' = "ended"
    /\ UNCHANGED <<g_running, main_pc, client_thread>>
    /\ UNCHANGED <<retryVars, dispVars, clientVars, serverVars, pktVars, backoffVars>>

\* from_env_defaults and WSClient::create return, or one of them throws (the
\* CA file cannot be loaded): the catch block of run_client prints and the
\* thread ends
ClientThreadConstructs ==
    /\ client_thread = "created"
    /\ client_thread' \in {"constructed", "ended"}
    /\ UNCHANGED <<g_running, main_pc, server_thread>>
    /\ UNCHANGED <<retryVars, dispVars, clientVars, serverVars, pktVars, backoffVars>>

\* `client->start("HELLO FROM ORCHESTRATOR");`
ClientThreadStarts ==
    /\ client_thread = "constructed"
    /\ sessions = <<>>
    /\ \E msg \in InitialMessages : Start(msg)

\* the first test of g_running after start(), or ioc.run_for(50 ms) returns
\* and g_running is tested again
ClientThreadPolls ==
    /\ \/ client_thread = "constructed" /\ sessions # <<>>
       \/ client_thread = "polling"
    /\ client_thread' = PollLoop(g_running, "polling", "left")
    /\ UNCHANGED <<g_running, main_pc, server_thread>>
    /\ UNCHANGED <<retryVars, dispVars, clientVars, serverVars, pktVars, backoffVars>>

\* ioc.run_for of the client thread resumes a coroutine that is ready
ClientIoContextWork ==
    /\ IoContextRuns(client_thread)
    /\ \E s \in SessionIds :
          \/ SessionRuns(s)
          \/ PhaseSucceeds(s)
          \/ WriteSucceeds(s)
          \/ PhaseFails(s)
          \/ \E msg \in Payloads : ReadMessage(s, msg)
          \/ ReadError(s)
          \/ CloseCompletes(s)

\* `client->stop();` after the loop
ClientThreadStops ==
    /\ client_thread = "left"
    /\ client_running
    /\ Stop

\* the end of the try block: `client` is destroyed, then `ioc`
ClientThreadDestroys ==
    /\ client_thread = "left"
    /\ ~client_running
    /\ ClientDestroy

\* run_client returns and the thread ends
ClientThreadEnds ==
    /\ client_thread = "left"
    /\ client_destroyed
    /\ client_thread' = "ended"
    /\ UNCHANGED <<g_running, main_pc, server_thread>>
    /\ UNCHANGED <<retryVars, dispVars, clientVars, serverVars, pktVars, backoffVars>>

MainStep ==
    \/ MainStartsServer
    \/ MainStartsClient
    \/ MainPolls
    \/ MainJoinsServer
    \/ MainJoinsClient

ServerThreadStep ==
    \/ ServerThreadConstructs
    \/ ServerThreadRuns
    \/ ServerThreadPolls
    \/ ServerThreadStops
    \/ ServerThreadDestroys
    \/ ServerThreadEnds

ClientThreadStep ==
    \/ ClientThreadConstructs
    \/ ClientThreadStarts
    \/ ClientThreadPolls
    \/ ClientThreadStops
    \/ ClientThreadDestroys
    \/ ClientThreadEnds

-----------------------------------------------------------------------------
(* Specifications *)

\* the retry executor of a WSClient that is not running a retry
RetryIdle ==
    /\ policy_ = [kind |-> "exponential", initial |-> 100, max_delay |-> 30000,
                  mul_num |-> 2, mul_den |-> 1, jit_num |-> 1, jit_den |-> 10,
                  max_attempts |-> 5]
    /\ r_mode = "execute_void"
    /\ r_retryable = Errors
    /\ rpc = "idle"
    /\ attempt = 0
    /\ result = EmptyResult
    /\ r_invocations = 0
    /\ r_ops = <<>>
    /\ r_delays = <<>>
    /\ r_predCalls = 0
    /\ stopInBackoff = FALSE

DispatchIdle ==
    /\ d_api = "ProtocolAPI"
    /\ d_pkt = Packet("", Green)
    /\ d_pc = "ready"
    /\ d_hooks = <<>>
    /\ d_logs = <<>>
    /\ d_raised = FALSE

\* a constructed WSClient: running_{false}, nothing spawned
ClientConstructed ==
    /\ client_running = FALSE
    /\ sessions = <<>>
    /\ inbound = 0
    /\ c_normal = <<>>
    /\ c_urgent = <<>>
    /\ client_destroyed = FALSE
    /\ client_moved = FALSE

\* a constructed WSServer: the constructor has opened, bound and put the
\* acceptor into listening; running_{false}, nothing spawned
ServerConstructed ==
    /\ server_running = FALSE
    /\ acceptor_open = TRUE
    /\ accept_loops = <<>>
    /\ srv_sessions = <<>>
    /\ s_inbound = 0
    /\ s_normal = <<>>
    /\ s_urgent = <<>>
    /\ s_stops = 0
    /\ server_destroyed = FALSE

\* main has not been entered: g_running{true}, no thread exists
OrchIdle ==
    /\ g_running = TRUE
    /\ main_pc = "start"
    /\ server_thread = "none"
    /\ client_thread = "none"

\* a default-constructed ExponentialBackoffPolicy that is not being asked
BackoffIdle ==
    /\ b_policy = [kind |-> "exponential", initial |-> Ms(100),
                   max_delay |-> Ms(30000), mul_num |-> 2, mul_den |-> 1,
                   jit_num |-> 1, jit_den |-> 10, max_attempts |-> 5]
    /\ b_attempt = 0
    /\ b_pc = "idle"
    /\ b_first = Ms(0)
    /\ b_second = Ms(0)

\* a default-constructed Packet: empty payload, urgency_{Urgency::Green}
PacketIdle ==
    /\ packet = Packet("", Green)
    /\ packet_given = Green

\* One run of execute / execute_if, for every policy, member and predicate,
\* inside a started client whose stop() may be called at any time.
RetryInit ==
    /\ policy_ \in Policies
    /\ r_mode \in Modes
    /\ r_retryable \in (IF IsExecuteIf(r_mode) THEN SUBSET Errors ELSE {Errors})
    /\ rpc = "idle"
    /\ attempt = 0
    /\ result = EmptyResult
    /\ r_invocations = 0
    /\ r_ops = <<>>
    /\ r_delays = <<>>
    /\ r_predCalls = 0
    /\ stopInBackoff = FALSE
    /\ client_running = TRUE
    /\ sessions = <<>>
    /\ inbound = 0
    /\ c_normal = <<>>
    /\ c_urgent = <<>>
    /\ client_destroyed = FALSE
    /\ client_moved = FALSE
    /\ DispatchIdle
    /\ ServerConstructed
    /\ PacketIdle
    /\ BackoffIdle
    /\ OrchIdle

RetryNext ==
    \/ RetryBegin
    \/ OpSucceeds
    \/ \E e \in Errors : OpFails(e)
    \/ TimerExpires
    \/ Stop

SpecRetry == RetryInit /\ [][RetryNext]_vars

DispatchInit ==
    /\ d_api \in Apis
    /\ d_pkt \in Packets
    /\ d_pc = "ready"
    /\ d_hooks = <<>>
    /\ d_logs = <<>>
    /\ d_raised = FALSE
    /\ RetryIdle
    /\ ClientConstructed
    /\ ServerConstructed
    /\ PacketIdle
    /\ BackoffIdle
    /\ OrchIdle

DispatchNext == DispatchCall \/ NextPacket

SpecDispatch == DispatchInit /\ [][DispatchNext]_vars

ClientInit ==
    /\ ClientConstructed /\ RetryIdle /\ DispatchIdle /\ ServerConstructed
    /\ PacketIdle /\ BackoffIdle /\ OrchIdle

SessionStep(s) ==
    \/ SessionRuns(s)
    \/ PhaseSucceeds(s)
    \/ WriteSucceeds(s)
    \/ PhaseFails(s)
    \/ \E msg \in Payloads : ReadMessage(s, msg)
    \/ ReadError(s)
    \/ CloseCompletes(s)
    \/ ResumesOnDeadClient(s)

ClientNext ==
    \/ \E msg \in InitialMessages : Start(msg)
    \/ Stop
    \/ ClientDestroy
    \/ \E s \in SessionIds : SessionStep(s)

SpecClient == ClientInit /\ [][ClientNext]_vars

\* The owner may also move the object: out of it, or another object into it
MovesNext ==
    \/ ClientNext
    \/ ClientMovedFrom
    \/ \E other \in BOOLEAN : ClientMoveAssigned(other)
    \/ \E s \in SessionIds : NullContextFaults(s)

SpecClientMoves == ClientInit /\ [][MovesNext]_vars

\* The io_context runs every coroutine that is ready to run; the network
\* owes the session nothing.
SpecClientFair ==
    ClientInit /\ [][ClientNext]_vars /\ WF_vars(\E s \in SessionIds : SessionRuns(s))

ServerInit ==
    /\ ServerConstructed /\ ClientConstructed /\ RetryIdle /\ DispatchIdle
    /\ PacketIdle /\ BackoffIdle /\ OrchIdle

SrvSessionStep(s) ==
    \/ SrvSessionRuns(s)
    \/ SrvHandshakeSucceeds(s)
    \/ SrvAcceptSucceeds(s)
    \/ SrvPhaseFails(s)
    \/ \E msg \in Payloads : SrvReadMessage(s, msg)
    \/ SrvReadError(s)
    \/ SrvEchoCompletes(s)
    \/ ResumesOnDeadServer(s)

AcceptLoopStep(l) ==
    \/ AcceptLoopRuns(l)
    \/ AcceptCompletes(l)
    \/ AcceptFails(l)
    \/ AcceptLoopOnDeadServer(l)

ServerNext ==
    \/ ServerRun
    \/ ServerStop
    \/ ServerDestroy
    \/ \E l \in LoopIds : AcceptLoopStep(l)
    \/ \E s \in SrvSessIds : SrvSessionStep(s)

SpecServer == ServerInit /\ [][ServerNext]_vars

\* The io_context runs an accept_loop that was spawned and one whose accept
\* the closed acceptor has completed; peers and the network owe nothing.
SpecServerFair ==
    /\ ServerInit /\ [][ServerNext]_vars
    /\ \A l \in LoopIds : WF_vars(AcceptLoopRuns(l)) /\ WF_vars(AcceptAborted(l))

\* An endpoint of either kind: the orchestrator gives the server and the
\* client a thread and an io_context of their own, so each runs as if alone.
EndpointNext ==
    \/ ClientNext /\ ServerConstructed
    \/ ServerNext /\ ClientConstructed

SpecEndpoint == ClientInit /\ [][EndpointNext]_vars

\* a Packet constructed from any payload and any value of the urgency type
PacketInit ==
    /\ packet \in Packets
    /\ packet_given = urgency(packet)
    /\ ServerConstructed /\ ClientConstructed /\ RetryIdle /\ DispatchIdle
    /\ BackoffIdle
    /\ OrchIdle

PacketNext ==
    \/ \E u \in Enumerators : SetUrgency(u)
    \/ \E data \in Payloads : SetPayload(data)
    \/ \E other \in AssignSources : PacketAssign(other)

SpecPacket == PacketInit /\ [][PacketNext]_vars

\* The process from the entry of main: the objects are the ones the threads
\* will construct, the signal may arrive at any time
OrchInit ==
    /\ OrchIdle
    /\ ClientConstructed /\ ServerConstructed
    /\ RetryIdle /\ DispatchIdle /\ PacketIdle /\ BackoffIdle

OrchNext ==
    \/ Signal
    \/ MainStep
    \/ ServerThreadStep
    \/ ServerIoContextWork
    \/ ClientThreadStep
    \/ ClientIoContextWork

SpecOrchestrator == OrchInit /\ [][OrchNext]_vars

\* The operating system schedules every thread that can run; the network and
\* the peers owe the io_contexts nothing.
SpecOrchestratorFair ==
    /\ OrchInit /\ [][OrchNext]_vars
    /\ WF_vars(MainStep)
    /\ WF_vars(ServerThreadStep)
    /\ WF_vars(ClientThreadStep)

\* a policy object of any configuration, first asked for attempt 0
DelayInit ==
    /\ b_policy \in DelayPolicies
    /\ b_attempt = 0
    /\ b_pc = "ready"
    /\ b_first = Ms(0)
    /\ b_second = Ms(0)
    /\ RetryIdle /\ DispatchIdle /\ ClientConstructed /\ ServerConstructed
    /\ PacketIdle /\ OrchIdle

DelayNext == DelayForCall \/ DelayForAgain \/ DelayForTraps \/ NextDelayQuery

SpecDelay == DelayInit /\ [][DelayNext]_vars

-----------------------------------------------------------------------------
(* Properties of the retry engine, checked under SpecRetry *)

Returned == rpc = "done"

RanExecute == r_mode \in {"execute", "execute_void"}

\* every finished invocation of the operation failed
AllFailed == \A i \in 1..Len(r_ops) : r_ops[i] # "ok"

\* the operation failed k-1 times and then succeeded
SucceededAt(k) ==
    /\ Len(r_ops) = k
    /\ k >= 1
    /\ r_ops[k] = "ok"
    /\ \A i \in 1..(k - 1) : r_ops[i] # "ok"

\* the delays waited are delay_for(0), ..., delay_for(n-1), and the outcome's
\* total_delay is their sum
DelaysAre(n) ==
    /\ Len(r_delays) = n
    /\ \A i \in 1..n : r_delays[i] \in delay_for(policy_, i - 1)
    /\ result.total_delay = SumSeq(r_delays)

\* the policy of the scenarios: 100ms, x2, no jitter, capped at 10s
IsScenarioPolicy ==
    /\ policy_.kind = "exponential"
    /\ policy_.initial = 100 /\ policy_.max_delay = 10000
    /\ policy_.mul_num = 2 /\ policy_.mul_den = 1 /\ policy_.jit_num = 0

\* C1: with max_attempts = N >= 1 and an operation that always fails, execute
\* invokes the operation exactly N times and returns attempts = N, failed,
\* last_error set and total_delay = delay_for(0) + ... + delay_for(N-2); no
\* delay is waited after the N-th failure (300ms in the scenario with N = 3).
C1_AlwaysFailing ==
    /\ (Returned /\ RanExecute /\ max_attempts(policy_) >= 1 /\ AllFailed) =>
          /\ r_invocations = max_attempts(policy_)
          /\ Len(r_ops) = max_attempts(policy_)
          /\ result.attempts = max_attempts(policy_)
          /\ failed(result, r_mode)
          /\ result.last_error # NoError
          /\ DelaysAre(max_attempts(policy_) - 1)
          /\ (IsScenarioPolicy /\ max_attempts(policy_) = 3) => result.total_delay = 300
    /\ (rpc = "waiting" /\ RanExecute) => Len(r_ops) < max_attempts(policy_)

C1_Witness ==
    /\ Returned /\ r_mode = "execute" /\ AllFailed
    /\ IsScenarioPolicy /\ max_attempts(policy_) = 3
    /\ r_invocations = 3
    /\ r_delays = <<100, 200>>
    /\ result.total_delay = 300

\* C2: if the operation fails k-1 times and succeeds on the k-th invocation,
\* execute returns success, attempts = k and total_delay = delay_for(0) +
\* ... + delay_for(k-2) (zero for k = 1, 100ms in the scenario for k = 2).
C2_SucceedsAtK ==
    \A k \in 1..Len(r_ops) :
        (Returned /\ RanExecute /\ SucceededAt(k)) =>
            /\ k <= max_attempts(policy_)
            /\ success(result, r_mode)
            /\ result.attempts = k
            /\ r_invocations = k
            /\ DelaysAre(k - 1)
            /\ (k = 1 => result.total_delay = 0)
            /\ (IsScenarioPolicy /\ k = 2) => result.total_delay = 100

C2_Witness ==
    /\ Returned /\ r_mode = "execute" /\ IsScenarioPolicy
    /\ r_ops = <<"timeout", "ok">>
    /\ result.attempts = 2
    /\ result.total_delay = 100

\* C3: execute_if with a predicate that calls every failure non-retryable
\* and an operation that fails returns after exactly one invocation, for
\* every max_attempts >= 1: failed, attempts = 1, total_delay = 0, last_error
\* set, and no backoff delay is waited.
C3_NonRetryableStops ==
    (IsExecuteIf(r_mode) /\ r_retryable = {}) =>
        /\ rpc # "waiting"
        /\ (Returned /\ max_attempts(policy_) >= 1 /\ AllFailed) =>
              /\ r_invocations = 1
              /\ Len(r_ops) = 1
              /\ failed(result, r_mode)
              /\ result.attempts = 1
              /\ result.total_delay = 0
              /\ r_delays = <<>>
              /\ result.last_error = r_ops[1]
              /\ result.last_error # NoError

C3_Witness ==
    /\ Returned /\ r_mode = "execute_if" /\ r_retryable = {}
    /\ max_attempts(policy_) = 3
    /\ r_ops = <<"auth">>
    /\ result.attempts = 1

\* C4: every outcome returned by execute or execute_if, for every policy a
\* caller can construct, has an attempt count in [1, max_attempts].
C4_AttemptsInRange ==
    Returned => (1 <= result.attempts /\ result.attempts <= max_attempts(policy_))

\* C5: whenever execute or execute_if returns a failed outcome, last_error is
\* set and is the error raised by the last invocation of the operation.
C5_FailedCarriesLastError ==
    (Returned /\ failed(result, r_mode)) =>
        /\ result.last_error # NoError
        /\ Len(r_ops) >= 1
        /\ result.last_error = r_ops[Len(r_ops)]

\* C6: the engine never retries on success: once an invocation succeeds the
\* outcome is returned at once, the operation is not invoked again and no
\* delay is waited after it; the number of invocations equals attempts.
C6_NoRetryOnSuccess ==
    /\ Returned => r_invocations = result.attempts
    /\ (\E i \in 1..Len(r_ops) : r_ops[i] = "ok") =>
          /\ Returned
          /\ success(result, r_mode)
          /\ SucceededAt(Len(r_ops))
          /\ r_invocations = Len(r_ops)
          /\ Len(r_delays) = Len(r_ops) - 1

C6_Witness ==
    /\ Returned
    /\ r_ops = <<"timeout", "timeout", "ok">>
    /\ r_invocations = 3
    /\ Len(r_delays) = 2

\* C7: if stop() is called while the retry engine waits out a backoff delay,
\* the wait is aborted and no further attempt of the operation is started.
C7_StopAbortsBackoff == stopInBackoff => rpc \in {"waiting", "done"}

\* invocations of the operation that have started and not yet returned
InProgress == r_invocations - Len(r_ops)

\* C22: attempts are strictly sequential. At most one invocation is in
\* progress, and none while a backoff delay is awaited; an invocation after
\* the first starts only in the step in which the timer of the delay expires,
\* after the invocation before it has failed and one delay per earlier
\* invocation has been waited.
C22_AttemptsSequential ==
    /\ [](InProgress = (IF rpc = "invoking" THEN 1 ELSE 0))
    /\ [][ r_invocations' # r_invocations =>
              /\ r_invocations' = r_invocations + 1
              /\ InProgress = 0
              /\ r_invocations = 0 => rpc = "idle"
              /\ r_invocations > 0 =>
                     /\ rpc = "waiting"
                     /\ r_ops[Len(r_ops)] \in Errors
                     /\ Len(r_delays) = r_invocations
                     /\ r_delays[r_invocations] \in
                            delay_for(policy_, r_invocations - 1) ]_vars

\* the third invocation is in progress after two failures and two delays
C22_Witness ==
    /\ rpc = "invoking"
    /\ r_invocations = 3
    /\ Len(r_ops) = 2
    /\ Len(r_delays) = 2

\* C32: with max_attempts = 0, which the policies accept, execute and
\* execute_if never invoke the operation and return an outcome with failed()
\* true, attempts = 0, total_delay = 0 and an empty last_error.
C32_ZeroAttempts ==
    max_attempts(policy_) = 0 =>
        /\ r_invocations = 0
        /\ r_ops = <<>>
        /\ rpc \in {"idle", "done"}
        /\ Returned =>
              /\ failed(result, r_mode)
              /\ result.attempts = 0
              /\ result.total_delay = 0
              /\ result.last_error = NoError
              /\ r_delays = <<>>
              /\ r_predCalls = 0

C32_Witness ==
    /\ Returned
    /\ max_attempts(policy_) = 0
    /\ IsExecuteIf(r_mode)
    /\ failed(result, r_mode)
    /\ result.attempts = 0

\* the error of the most recent failed invocation, NoError if none failed
LastFailure(ops) ==
    LET failures == { i \in 1..Len(ops) : ops[i] # "ok" }
    IN  IF failures = {} THEN NoError
        ELSE ops[CHOOSE i \in failures : \A j \in failures : j <= i]

\* C33: in every outcome of execute / execute_if with max_attempts >= 1,
\* last_error is empty if and only if no invocation failed; an outcome that
\* succeeded after a failed attempt carries the error of the most recent
\* failed attempt.
C33_LastErrorIffFailure ==
    (Returned /\ max_attempts(policy_) >= 1) =>
        /\ result.last_error = NoError <=> (\A i \in 1..Len(r_ops) : r_ops[i] = "ok")
        /\ result.last_error = LastFailure(r_ops)

C33_Witness ==
    /\ Returned
    /\ success(result, r_mode)
    /\ r_ops = <<"timeout", "auth", "ok">>
    /\ result.last_error = "auth"

\* execute for execute_if and execute_if for execute, of the same ResultT
Counterpart(m) ==
    CASE m = "execute_if"      -> "execute"
      [] m = "execute_if_void" -> "execute_void"
      [] m = "execute"         -> "execute_if"
      [] m = "execute_void"    -> "execute_if_void"

\* the invocation in progress ends as it does in member m when the predicate
\* reports every failure as retryable
InvocationEndsIn(m) ==
    \/ /\ r_ops' = Append(r_ops, "ok")
       /\ ReturnOnSuccess(attempt, StoreSuccess(result, m))
       /\ UNCHANGED r_delays
    \/ \E e \in Errors :
          /\ r_ops' = Append(r_ops, e)
          /\ CatchBlock(m, Errors, e)

\* should_retry is called once if the invocation failed, not at all otherwise
PredicateConsultedOnFailure ==
    r_predCalls' = r_predCalls + (IF r_ops'[Len(r_ops')] = "ok" THEN 0 ELSE 1)

EndOfInvocationAgrees ==
    (rpc = "invoking" /\ r_ops' # r_ops
       /\ (IsExecuteIf(r_mode) => r_retryable = Errors)) =>
        /\ InvocationEndsIn(Counterpart(r_mode))
        /\ IsExecuteIf(r_mode) => PredicateConsultedOnFailure

\* C34: execute_if with a predicate that reports every failure as retryable
\* does what execute does: from the same state and on the same result of the
\* operation either member invokes again, waits the same delay or returns the
\* same outcome (success flag, attempts, total_delay, last_error), and the
\* predicate is consulted exactly once per failed invocation, the last one
\* included.
C34_ExecuteIfAsExecute == [][EndOfInvocationAgrees]_vars

C34_Witness ==
    /\ Returned
    /\ r_mode = "execute_if"
    /\ r_retryable = Errors
    /\ max_attempts(policy_) = 3
    /\ r_ops = <<"timeout", "auth", "timeout">>
    /\ r_predCalls = 3
    /\ Len(r_delays) = 2

-----------------------------------------------------------------------------
(* Properties of the client session *)

\* C8: if stop() is called while the read loop is suspended in a read, the
\* read is released and the session leaves the read without a further
\* inbound message, transport close or timeout.  Checked under
\* SpecClientFair.
C8_StopUnblocksRead ==
    \A s \in SessionIds :
        (Live(s) /\ sessions[s].pc = "read" /\ ~client_running)
            ~> (Live(s) /\ sessions[s].pc # "read")

\* the session coroutines that have not ended
Running(ss) == { s \in DOMAIN ss : ss[s].pc \notin {"done", "failed", "crashed"} }

\* the Session has reached Closed or Failed: every coroutine started for it
\* has ended
ClosedOrFailed ==
    /\ ~client_destroyed
    /\ Len(sessions) >= 1
    /\ Running(sessions) = {}

\* C13: after stop() on an open session no further dispatch call (on_normal
\* or on_urgent) is made for it, not even for a message whose read was
\* pending when stop() was called.  Checked under SpecClient.
C13_NoDispatchAfterStop ==
    [][(~client_running /\ ~client_destroyed) =>
            (c_normal' = c_normal /\ c_urgent' = c_urgent)]_vars

\* C14: for every sequence of start() and stop() calls at most one session
\* control flow, hence at most one pending suspension point, exists at any
\* time: a second start() launches no second concurrent session.  Checked
\* under SpecClient.
C14_OneControlFlow ==
    ~client_destroyed => Cardinality(Running(sessions)) <= 1

\* C15: the client session wraps the transport connect in the retry engine: a
\* connect failure ends the session (Failed) only when the engine has used up
\* its max_attempts invocations.  Checked under SpecClient.
C15_ConnectRetried ==
    [][\A s \in DOMAIN sessions :
          (~client_destroyed /\ sessions[s].pc = "connect"
              /\ sessions'[s].pc = "failed") =>
                  (rpc' = "done" /\ r_invocations' = max_attempts(policy_))]_vars

\* C16: Closed (or Failed) is terminal: once the Session is there, no start(),
\* stop() or event changes its state; start() does not connect again.
\* Checked under SpecClient.
C16_ClosedIsTerminal ==
    [][ClosedOrFailed => (sessions' = sessions \/ client_destroyed')]_vars

\* C17: a failure during Connecting/Handshaking of a client session is
\* surfaced to the caller of start() as a failed outcome, not only logged.
\* Checked under SpecClient.
C17_ConnectFailureSurfaced ==
    \A s \in DOMAIN sessions :
        (~client_destroyed /\ sessions[s].pc = "failed" /\ sessions[s].sent = <<>>) =>
            sessions[s].completion = "failed"

\* C20: destroying a Session that is still open performs an internal stop()
\* (the liveness flag is false afterwards, for the client and for the server)
\* and returns at once: the destructor leaves every session coroutine where
\* it is suspended and does not wait for it to end.  Checked under SpecClient.
C20_DestructorStops ==
    /\ [](client_destroyed => ~client_running)
    /\ [](\A st \in [running : BOOLEAN, open : BOOLEAN] :
             ~WSServerDestructor(st).running)
    /\ [][(~client_destroyed /\ client_destroyed') => sessions' = sessions]_vars

C20_Witness ==
    /\ client_destroyed
    /\ ~client_running
    /\ \E s \in DOMAIN sessions : sessions[s].pc = "read"

-----------------------------------------------------------------------------
(* Properties of dispatch, checked under SpecDispatch *)

\* C9: each call of dispatch invokes exactly one hook exactly once:
\* on_normal and not on_urgent for Green, on_urgent and not on_normal for
\* Yellow and Red.
C9_ExactlyOneHook ==
    d_pc = "dispatched" =>
        /\ Len(d_hooks) = 1
        /\ d_hooks[1].payload = d_pkt.payload
        /\ d_pkt.urgency = Green => d_hooks[1].hook = "on_normal"
        /\ d_pkt.urgency \in {Yellow, Red} => d_hooks[1].hook = "on_urgent"

C9_Witness ==
    /\ d_pc = "dispatched"
    /\ d_api = "PacketDispatcher"
    /\ d_pkt = Packet("ping", Red)
    /\ d_hooks = <<[hook |-> "on_urgent", payload |-> "ping"]>>

\* C10: dispatch of a message whose urgency is none of Green, Yellow, Red
\* raises no error and invokes on_normal exactly once and on_urgent never.
C10_UnknownUrgencyIsNormal ==
    (d_pc = "dispatched" /\ d_pkt.urgency \notin {Green, Yellow, Red}) =>
        /\ ~d_raised
        /\ d_hooks = <<[hook |-> "on_normal", payload |-> d_pkt.payload]>>

C10_Witness ==
    /\ d_pc = "dispatched"
    /\ d_api = "ProtocolAPI"
    /\ d_pkt.urgency = 255
    /\ d_hooks = <<[hook |-> "on_normal", payload |-> d_pkt.payload]>>

\* C30: dispatch has no effect other than the one hook invocation. After a
\* call of dispatch, of either dispatcher, one hook has been invoked, nothing
\* was raised, the packet is the one that was passed in and no line was
\* logged by the dispatcher itself.
C30_DispatchOnlyInvokesHook ==
    d_pc = "dispatched" =>
        /\ Len(d_hooks) = 1
        /\ d_hooks[1].payload = d_pkt.payload
        /\ ~d_raised
        /\ d_logs = <<>>

-----------------------------------------------------------------------------
(* Properties of the server and of stop(), checked under SpecServer *)

\* C11: stop() on a server that has not been started is a no-op: it changes
\* no state (the flag stays false, the acceptor stays open and listening), so
\* that a later run() accepts connections as if stop() had not been called.
C11_StopBeforeStartIsNoOp ==
    (Len(accept_loops) = 0 /\ ~server_destroyed) =>
        (~server_running /\ acceptor_open)

\* C12: stop() is idempotent: in every reachable state a second stop() leaves
\* the flag and the transport as the first one left them and raises nothing
\* (the client's stop() only writes the flag; neither stop() touches a
\* session coroutine).
C12_StopIdempotent ==
    /\ \A r \in BOOLEAN : WSClientStop(WSClientStop(r)) = WSClientStop(r)
    /\ LET once  == WSServerStop(ServerState)
           twice == WSServerStop([running |-> once.running, open |-> once.open])
       IN  /\ twice.running = once.running
           /\ twice.open = once.open
           /\ ~twice.raised
    /\ (s_stops >= 1 /\ ~server_running) => ~acceptor_open

C12_Witness ==
    /\ s_stops = 2
    /\ ~server_destroyed
    /\ ~server_running /\ ~acceptor_open
    /\ \E s \in DOMAIN srv_sessions : srv_sessions[s].pc = "read"

\* C18: WSServer::stop() only stops accepting: a session that is open (in
\* its read or its echo write) keeps reading, dispatching and echoing and
\* ends only when its own transport closes or fails, that is, never on
\* completing an echo.
C18_OpenSessionsSurviveStop ==
    [][\A s \in DOMAIN srv_sessions :
          (~server_destroyed /\ srv_sessions[s].pc = "write") =>
              srv_sessions'[s].pc \in {"write", "read", "failed"}]_vars

-----------------------------------------------------------------------------
(* Properties of Packet, checked under SpecPacket *)

\* C19: the urgency of a Message never changes after construction: no
\* operation of the public interface makes urgency() return a value other
\* than the one given to the constructor.
C19_UrgencyImmutable == urgency(packet) = packet_given


-----------------------------------------------------------------------------
(* Properties of the sessions of either endpoint, checked under SpecEndpoint *)

SrvEnded == {"failed", "done"}

\* the step ends server session s: a handshake, the read or the echo write
\* failed, or the loop was left
SrvSessionEnds(s) ==
    srv_sessions[s].pc \notin SrvEnded \cup {"crashed"} /\ srv_sessions'[s].pc \in SrvEnded

\* the step ends the work of client session s by a failure: a co_await of the
\* connect phase threw, or the read reported an error
ClientSessionFails(s) ==
    \/ sessions[s].pc \in ThrowingPcs /\ sessions'[s].pc = "failed"
    \/ sessions[s].pc = "read" /\ sessions'[s].pc = "close"

\* C21: no session error is fatal. A step in which a server session ends by
\* a handshake, read or write failure changes nothing but that session: the
\* accept loops stay where they are, every other session is untouched and
\* the flag and the acceptor keep their values; a step in which a client
\* session fails changes nothing but that session.
C21_SessionErrorIsLocal ==
    [][ /\ \A s \in DOMAIN srv_sessions :
              SrvSessionEnds(s) =>
                  /\ accept_loops' = accept_loops
                  /\ \A t \in DOMAIN srv_sessions \ {s} :
                         srv_sessions'[t] = srv_sessions[t]
                  /\ server_running' = server_running
                  /\ acceptor_open' = acceptor_open
        /\ \A s \in DOMAIN sessions :
              ClientSessionFails(s) =>
                  /\ \A t \in DOMAIN sessions \ {s} : sessions'[t] = sessions[t]
                  /\ client_running' = client_running ]_vars

\* one session has failed while the accept loop is accepting and another
\* session is reading
C21_Witness ==
    /\ ~server_destroyed
    /\ \E l \in DOMAIN accept_loops : accept_loops[l] = "accept"
    /\ \E s, t \in DOMAIN srv_sessions :
           srv_sessions[s].pc = "failed" /\ srv_sessions[t].pc = "read"

\* C23: no read and no dispatch before the connect phase has succeeded. A
\* client session that is in its read loop or past it, or has been given a
\* message, has completed resolve, connect, the TLS handshake, the WebSocket
\* handshake and the write of its initial message, in this order; a server
\* session in that case has completed the TLS handshake and the WebSocket
\* accept; a client session that failed never received a message, and no
\* hook has run unless some session completed its connect phase.
C23_ReadAfterConnect ==
    /\ \A s \in DOMAIN sessions :
          /\ (sessions[s].pc \in {"read", "close", "done"} \/ sessions[s].received # <<>>)
                => /\ sessions[s].completed = ConnectPhases
                   /\ sessions[s].sent = <<sessions[s].initial>>
          /\ sessions[s].pc = "failed"
                => /\ sessions[s].completed # ConnectPhases
                   /\ sessions[s].received = <<>>
    /\ (c_normal # <<>> \/ c_urgent # <<>>)
          => \E s \in DOMAIN sessions : sessions[s].completed = ConnectPhases
    /\ \A s \in DOMAIN srv_sessions :
          (srv_sessions[s].pc \in {"read", "write", "done"} \/ srv_sessions[s].received # <<>>)
             => srv_sessions[s].completed = SrvConnectPhases
    /\ (s_normal # <<>> \/ s_urgent # <<>>)
          => \E s \in DOMAIN srv_sessions : srv_sessions[s].completed = SrvConnectPhases

\* a client session is reading and has been given a message while another
\* failed in its connect phase
C23_Witness ==
    \E s, t \in DOMAIN sessions :
        /\ sessions[s].pc = "read"
        /\ sessions[s].received # <<>>
        /\ sessions[t].pc = "failed"

\* C24: a session whose read loop exits attempts the close handshake before
\* it terminates, and the outcome of the close is not propagated. A client
\* session leaves its read loop to async_close only and ends normally after
\* it; a server session leaves its read loop to a close as well.
C24_CloseOnLoopExit ==
    [][ /\ \A s \in DOMAIN sessions :
              /\ (sessions[s].pc = "read" /\ sessions'[s].pc \notin {"read", "crashed"})
                    => sessions'[s].pc = "close"
              /\ (sessions[s].pc = "write" /\ sessions'[s].pc \in {"close", "done"})
                    => sessions'[s].pc = "close"
              /\ (sessions[s].pc = "close" /\ sessions'[s].pc \notin {"close", "crashed"})
                    => sessions'[s].pc = "done"
        /\ \A s \in DOMAIN srv_sessions :
              (/\ srv_sessions[s].pc \in {"read", "write", "ws_accept"}
               /\ srv_sessions'[s].pc \in {"close", "done"})
                    => srv_sessions'[s].pc = "close" ]_vars

\* the step delivers message m to session s of the sequence ss
Delivers(ss, ssNext, s, m) == ssNext[s].received = Append(ss[s].received, m)

\* a step that delivers a message invokes on_normal with it, and the hooks
\* are invoked by no other step
DispatchedOnDelivery ==
    /\ \A s \in DOMAIN sessions :
          sessions'[s].received # sessions[s].received =>
              \E m \in Payloads :
                  /\ Delivers(sessions, sessions', s, m)
                  /\ c_normal' = Append(c_normal, m)
                  /\ c_urgent' = c_urgent
    /\ \A s \in DOMAIN srv_sessions :
          srv_sessions'[s].received # srv_sessions[s].received =>
              \E m \in Payloads :
                  /\ Delivers(srv_sessions, srv_sessions', s, m)
                  /\ s_normal' = Append(s_normal, m)
                  /\ s_urgent' = s_urgent
    /\ (c_normal' # c_normal \/ c_urgent' # c_urgent) =>
          \E s \in DOMAIN sessions : sessions'[s].received # sessions[s].received
    /\ (s_normal' # s_normal \/ s_urgent' # s_urgent) =>
          \E s \in DOMAIN srv_sessions :
              srv_sessions'[s].received # srv_sessions[s].received

\* C25: messages are dispatched in arrival order. Whenever a read delivers a
\* message to a session, the same step invokes on_normal with exactly that
\* message, once, before the session does anything else; the hooks are invoked
\* by no other step; so the hook sequence of an endpoint with one session is
\* the sequence of messages that session received.
C25_DispatchInArrivalOrder ==
    /\ [][DispatchedOnDelivery]_vars
    /\ [](Len(sessions) = 1 => c_normal = sessions[1].received)
    /\ [](Len(srv_sessions) = 1 => s_normal = srv_sessions[1].received)

\* a server session has been given two different messages, the empty one last
C25_Witness ==
    /\ Len(srv_sessions) = 1
    /\ srv_sessions[1].received = <<"ping", "">>
    /\ s_normal = <<"ping", "">>

\* where a session is once its read loop has been left
LoopLeft == {"close", "done", "failed"}

\* a read of session s reported an error in this step: the session moved on
\* from its read without having been given a message
ReadFailed(ss, ssNext, s) ==
    /\ ss[s].pc = "read"
    /\ ssNext[s].pc \notin {"read", "crashed"}
    /\ ssNext[s].received = ss[s].received

\* a read that reports an error ends the loop, without retry and without a
\* dispatch, whatever the flag
ReadErrorEndsLoop ==
    /\ \A s \in DOMAIN sessions :
          ReadFailed(sessions, sessions', s) =>
              /\ sessions'[s].pc = "close"
              /\ c_normal' = c_normal /\ c_urgent' = c_urgent
    /\ \A s \in DOMAIN srv_sessions :
          ReadFailed(srv_sessions, srv_sessions', s) =>
              /\ srv_sessions'[s].pc = "done"
              /\ s_normal' = s_normal /\ s_urgent' = s_urgent

\* the client's read loop is left only by a read error or with the flag false
ClientLoopExits ==
    \A s \in DOMAIN sessions :
        (sessions[s].pc = "read" /\ sessions'[s].pc \in LoopLeft) =>
            \/ ReadFailed(sessions, sessions', s)
            \/ ~client_running

\* the step leaves the read loop of server session s
SrvLoopExit(s) ==
    srv_sessions[s].pc \in {"read", "write"} /\ srv_sessions'[s].pc \in LoopLeft

\* C26 as stated: a read error ends the loop without retry and without a
\* dispatch, and the read loop is left for no other reason than a read error
\* or the flag being false at the head of the loop.
C26_OnlyReadErrorOrFlag ==
    [][ /\ ReadErrorEndsLoop
        /\ ClientLoopExits
        /\ \A s \in DOMAIN srv_sessions :
              SrvLoopExit(s) =>
                  \/ ReadFailed(srv_sessions, srv_sessions', s)
                  \/ ~server_running /\ srv_sessions[s].pc = "write"
                                     /\ srv_sessions'[s].pc = "done" ]_vars

\* the echo write of server session s threw in this step
EchoWriteFailed(s) ==
    srv_sessions[s].pc = "write" /\ srv_sessions'[s].pc = "failed"

\* C26 amended: as above, and a server session also leaves its read loop
\* when the echo write fails.
C26_ReadErrorFlagOrEchoFailure ==
    [][ /\ ReadErrorEndsLoop
        /\ ClientLoopExits
        /\ \A s \in DOMAIN srv_sessions :
              SrvLoopExit(s) =>
                  \/ ReadFailed(srv_sessions, srv_sessions', s)
                  \/ ~server_running /\ srv_sessions[s].pc = "write"
                                     /\ srv_sessions'[s].pc = "done"
                  \/ EchoWriteFailed(s) ]_vars

\* a running server has a session that was given a message and failed before
\* the echo was written
C26_Witness ==
    /\ server_running /\ ~server_destroyed
    /\ \E s \in DOMAIN srv_sessions :
           /\ srv_sessions[s].pc = "failed"
           /\ Len(srv_sessions[s].received) = 1
           /\ srv_sessions[s].echoed = <<>>

-----------------------------------------------------------------------------
(* Properties of delay_for, checked under SpecDelay *)

\* min(initial * multiplier^a, max_delay) in exact arithmetic, for a
\* multiplier >= 1: the product is followed only until it passes max_delay
RECURSIVE ExactBase(_, _, _, _)
ExactBase(p, i, a, b) ==
    IF Less(p.max_delay, b) THEN p.max_delay
    ELSE IF i = a THEN b
    ELSE ExactBase(p, i + 1, a, DMul(b, Multiplier(p)))

ExactExponential(p, a) == ExactBase(p, 0, a, p.initial)

\* min(initial + increment * a, max_delay) in exact arithmetic
ExactLinear(p, a) ==
    RepMin2(DAdd(p.initial, DMul(p.increment, Ms(a))), p.max_delay)

DelayReturned == b_pc \in {"called", "twice"}

JitterFree(p) ==
    /\ p.kind = "exponential"
    /\ p.jit_num = 0
    /\ p.mul_num >= p.mul_den
    /\ Leq(Ms(0), p.initial)
    /\ Leq(p.initial, p.max_delay)

\* C27: an exponential policy with jitter_factor = 0, multiplier >= 1 and
\* 0 <= initial_delay <= max_delay returns the same value from two calls with
\* the same attempt index, returns no more for a than for a + 1, returns
\* min(initial * multiplier^a, max_delay) in whole milliseconds, and never
\* returns more than max_delay, for every attempt index
C27_JitterFreeExponential ==
    (DelayReturned /\ JitterFree(b_policy)) =>
        /\ b_pc = "twice" => b_first = b_second
        /\ \A v \in PolicyDelayFor(b_policy, b_attempt + 1) : Leq(b_first, v)
        /\ b_first = TruncD(ExactExponential(b_policy, b_attempt))
        /\ Leq(b_first, b_policy.max_delay)

Jittered(p) ==
    /\ p.kind = "exponential"
    /\ p.jit_num > 0
    /\ p.jit_num <= p.jit_den

\* C28: with jitter_factor = j in (0, 1], every value delay_for(a) returns lies
\* between base * (1 - j) and base * (1 + j), cut to whole milliseconds and
\* clamped to max_delay, where base = min(initial * multiplier^a, max_delay);
\* it is never negative and never above max_delay
C28_JitterWindow ==
    (DelayReturned /\ Jittered(b_policy)) =>
        LET base == ExactExponential(b_policy, b_attempt)
        IN  /\ Leq(TruncD(RepMin2(JitterLow(b_policy, base),
                                  b_policy.max_delay)), b_first)
            /\ Leq(b_first, RepMin2(JitterHigh(b_policy, base),
                                    b_policy.max_delay))
            /\ Leq(Ms(0), b_first)
            /\ Leq(b_first, b_policy.max_delay)

LinearGrowing(p) ==
    /\ p.kind = "linear"
    /\ Leq(Ms(0), p.increment)

\* C29: a linear policy with increment >= 0 returns
\* min(initial + increment * a, max_delay) for every attempt index a, no more
\* for a than for a + 1, and never more than max_delay
C29_LinearDelay ==
    (DelayReturned /\ LinearGrowing(b_policy)) =>
        /\ b_first = ExactLinear(b_policy, b_attempt)
        /\ \A v \in PolicyDelayFor(b_policy, b_attempt + 1) : Leq(b_first, v)
        /\ Leq(b_first, b_policy.max_delay)

\* C35: every inbound message of a client or server session is dispatched
\* as a Green packet whatever its bytes: each delivery invokes on_normal, and
\* on_urgent is never invoked by a read loop.
C35_InboundIsNormal ==
    /\ c_urgent = <<>>
    /\ s_urgent = <<>>
    /\ Len(c_normal) = inbound
    /\ Len(s_normal) = s_inbound

C35_Witness ==
    /\ s_normal = <<"ping", "">>
    /\ s_urgent = <<>>
    /\ \E s \in DOMAIN srv_sessions : srv_sessions[s].received = <<"ping", "">>

\* a step of a run_session coroutine: no coroutine is spawned and one moves
SessionStepTaken == Len(sessions') = Len(sessions) /\ sessions' # sessions

\* is_running()
is_running == client_running

Rises == ~is_running /\ is_running'

Falls == is_running /\ ~is_running'

StartCalled == \E msg \in InitialMessages : Start(msg)

\* stop() is called, by the owner or by the destructor
StopCalled == Stop \/ ClientDestroy

RunningFollowsStartStop ==
    /\ SessionStepTaken => UNCHANGED client_running
    /\ StartCalled => is_running'
    /\ Rises => StartCalled
    /\ Falls => StopCalled

\* C36 as stated: is_running() reflects only the calls of start() and stop(),
\* not the state of the session: after start() it stays true until stop() is
\* called, also after the session has ended in Failed or Closed.
C36_RunningFollowsStartStop == [][RunningFollowsStartStop]_vars

RunningFollowsCalls ==
    /\ SessionStepTaken => UNCHANGED client_running
    /\ StartCalled => is_running'
    /\ Rises => (StartCalled \/ ClientMoveAssigned(TRUE))
    /\ Falls => (StopCalled \/ ClientMovedFrom \/ ClientMoveAssigned(FALSE))

\* C36, amended: is_running() reflects only the calls made on the object
\* (start(), stop(), and the object being moved from or move-assigned to),
\* not the state of the session: no step of a session coroutine changes it,
\* and after start() it stays true until stop() is called or the object is
\* moved from or move-assigned to, also after the session has ended in
\* Failed or Closed.
C36_RunningIgnoresSession == [][RunningFollowsCalls]_vars

C36_Witness ==
    /\ is_running
    /\ ~client_destroyed
    /\ \E s \in DOMAIN sessions : sessions[s].pc = "failed"
    /\ \E s \in DOMAIN sessions : sessions[s].pc = "done"

\* the positions from which run_session, when the co_await returns, goes on
\* to read a member of the WSClient: ioc_ and cfg_ (start of the coroutine),
\* ioc_ and *ssl_ctx_ (after resolve), cfg_ (after the TLS handshake), cfg_
\* and api_ (after the WebSocket handshake), running_ (after the write)
ReadsObjectAfter == {"spawned", "resolve", "ssl_handshake", "ws_handshake", "write"}

\* session s resumes and reads a member of the WSClient object: from one of
\* the positions above without an exception, or from the read with a message
\* (api_, *this as the handler, then running_)
ResumesOnObject(s) ==
    \/ /\ sessions[s].pc \in ReadsObjectAfter
       /\ sessions'[s].pc \notin {sessions[s].pc, "failed"}
    \/ /\ sessions[s].pc = "read"
       /\ sessions'[s].received # sessions[s].received

NoResumeOnDeadObject ==
    (client_destroyed \/ client_moved) =>
        \A s \in DOMAIN sessions : ~ResumesOnObject(s)

\* C37: no step of a detached session coroutine reads the liveness flag, the
\* configuration or the TLS context of a WSClient object after that object
\* has been destroyed or moved from: the coroutine does not resume on the
\* dead object.
C37_NoUseAfterDestroy == [][NoResumeOnDeadObject]_vars

-----------------------------------------------------------------------------
(* Properties of the orchestrator, checked under SpecOrchestratorFair *)

ThreadOver(thread) == thread \in {"ended", "joined"}

\* server->stop() / client->stop() has been called by the thread
ServerStopCalled == s_stops > 0

ClientStopCalled == client_thread = "left" /\ ~client_running

\* a thread that has run its object ends only after leaving the polling
\* loop and calling stop() on it
ThreadsStopBeforeEnding ==
    /\ (ThreadOver(server_thread) /\ accept_loops # <<>>) =>
           (s_stops = 1 /\ ~server_running /\ ~acceptor_open)
    /\ (ThreadOver(client_thread) /\ sessions # <<>>) => ~client_running

NoCoroutineStepAfterStop ==
    /\ (ServerStopCalled \/ ThreadOver(server_thread)) =>
           UNCHANGED <<accept_loops, srv_sessions, s_normal, s_urgent>>
    /\ (ClientStopCalled \/ ThreadOver(client_thread)) =>
           UNCHANGED <<sessions, c_normal, c_urgent>>

\* C31: after a shutdown signal has cleared g_running the server thread and
\* the client thread each leave their polling loop, call stop() on their
\* object and end, the main thread joins both and run() returns
\* EXIT_SUCCESS, for every interleaving of the three threads and whatever
\* the sessions are doing; no session coroutine step runs after stop() is
\* called.
C31_ShutdownTerminates ==
    /\ (~g_running) ~> (main_pc = "EXIT_SUCCESS")
    /\ []ThreadsStopBeforeEnding
    /\ [][NoCoroutineStepAfterStop]_vars

\* run() has returned with a server session and the client session still
\* suspended in their reads
C31_Witness ==
    /\ main_pc = "EXIT_SUCCESS"
    /\ ~g_running
    /\ s_stops = 1
    /\ \E s \in DOMAIN srv_sessions : srv_sessions[s].pc = "read"
    /\ \E s \in DOMAIN sessions : sessions[s].pc = "read"

-----------------------------------------------------------------------------
(* Properties of the echo of a server session, checked under SpecServer *)

\* what session s has echoed matches what it has read: everything while it
\* waits for a read or has left the loop in order, everything but the
\* message just read while the echo write is pending or has thrown
EchoedTracksReceived(s) ==
    LET r == srv_sessions[s].received
        e == srv_sessions[s].echoed
    IN  /\ srv_sessions[s].pc \in {"read", "done"} => e = r
        /\ srv_sessions[s].pc = "write" =>
               r = Append(e, r[Len(r)])
        /\ e = r \/ (r # <<>> /\ r = Append(e, r[Len(r)]))

\* the hooks invoked by the server so far, on_normal and on_urgent together
SrvDispatches == Len(s_normal) + Len(s_urgent)

\* one step seen from session s: a read is issued with nothing left to echo
\* and its message is dispatched once in the step that delivers it; an echo
\* writes the message just read, once, and only then is a read issued again;
\* a failed echo write ends the session, which then never moves again
EchoStep(s) ==
    LET a == srv_sessions[s]
        b == srv_sessions'[s]
    IN  /\ b.received # a.received =>
               /\ a.pc = "read" /\ a.echoed = a.received
               /\ b.pc = "write" /\ b.echoed = a.echoed
               /\ \E msg \in Payloads :
                      /\ b.received = Append(a.received, msg)
                      /\ s_normal' = Append(s_normal, msg)
                      /\ s_urgent' = s_urgent
        /\ b.echoed # a.echoed =>
               /\ a.pc = "write" /\ b.received = a.received
               /\ b.echoed = Append(a.echoed, a.received[Len(a.received)])
               /\ b.echoed = b.received
               /\ SrvDispatches' = SrvDispatches
        /\ a.pc = "write" /\ b.pc = "read" => b.echoed # a.echoed
        /\ a.pc = "write" /\ b.pc = "failed" =>
               /\ b = [a EXCEPT !.pc = "failed"]
               /\ SrvDispatches' = SrvDispatches
        /\ a.pc = "failed" => b = a

\* C38: in a server session every message read is dispatched, then echoed
\* exactly once with the same bytes before the next read is issued, so that
\* the echoed sequence equals the received one; a failed echo write ends the
\* session with no further read or dispatch.
C38_EchoAfterDispatch ==
    /\ [](\A s \in DOMAIN srv_sessions : EchoedTracksReceived(s))
    /\ [][ /\ \A s \in DOMAIN srv_sessions : EchoStep(s)
           /\ SrvDispatches' # SrvDispatches =>
                  \E s \in DOMAIN srv_sessions :
                      srv_sessions'[s].received # srv_sessions[s].received
         ]_vars

\* a session has read, dispatched and echoed one message, has read and
\* dispatched a second, different one, and was ended by its echo write failing
C38_Witness ==
    \E s \in DOMAIN srv_sessions :
        /\ srv_sessions[s].pc = "failed"
        /\ srv_sessions[s].received = <<"ping", "">>
        /\ srv_sessions[s].echoed = <<"ping">>
        /\ s_normal = <<"ping", "">>

-----------------------------------------------------------------------------
(* Properties of a client stopped while connecting, checked under SpecClient *)

\* the positions of run_session before the head of the read loop
BeforeReadLoop == ThrowingPcs \cup {"spawned"}

\* one step of session s after stop() and before its read loop: the step is
\* the next co_await of the connect phase, or that co_await failing by
\* itself; after the write of the initial message the loop is skipped, the
\* close handshake is issued with nothing read or dispatched, and completes
StoppedWhileConnectingStep(s) ==
    LET a == sessions[s]
        b == sessions'[s]
    IN  /\ a.pc \in BeforeReadLoop /\ b # a =>
               \/ a.pc = "spawned" /\ b = [a EXCEPT !.pc = "resolve"]
               \/ /\ a.pc \in ThrowingPcs \ {"write"}
                  /\ b.pc = NextPhase(a.pc)
                  /\ b.completed = Append(a.completed, a.pc)
                  /\ b.reads = 0 /\ b.received = <<>>
               \/ /\ a.pc = "write"
                  /\ b.pc = "close"
                  /\ b.completed = ConnectPhases
                  /\ b.sent = <<a.initial>>
                  /\ b.reads = 0 /\ b.received = <<>>
               \/ a.pc \in ThrowingPcs /\ b = [a EXCEPT !.pc = "failed"]
        /\ a.pc = "close" /\ a.reads = 0 /\ b # a =>
               b = [a EXCEPT !.pc = "done"]

\* C39: stop() during resolve, connect or a handshake aborts nothing: with
\* the flag false the session still completes the connect phase, sends the
\* initial message, skips the read loop (no read, no dispatch) and performs
\* the close handshake.
C39_StopWhileConnecting ==
    [][ /\ Stop => sessions' = sessions
        /\ ~client_running /\ ~client_destroyed /\ ~client_running' =>
               /\ \A s \in DOMAIN sessions : StoppedWhileConnectingStep(s)
               /\ (\A s \in DOMAIN sessions : sessions[s].reads = 0) =>
                      c_normal' = c_normal /\ c_urgent' = c_urgent
      ]_vars

\* a stopped client whose only session went through the whole connect phase,
\* sent the initial message, never issued a read and completed the close
C39_Witness ==
    /\ ~client_running /\ ~client_destroyed
    /\ Len(sessions) = 1
    /\ sessions[1].pc = "done"
    /\ sessions[1].completed = ConnectPhases
    /\ sessions[1].sent = <<"HELLO">>
    /\ sessions[1].reads = 0
    /\ c_normal = <<>> /\ c_urgent = <<>>

-----------------------------------------------------------------------------
(* Properties of the accept loop, checked under SpecServerFair *)

\* the server object exists and stop() was its last call
ServerStopped == ~server_running /\ ~server_destroyed /\ s_stops > 0

\* one step seen from accept loop l: with the acceptor closed the accept
\* spawns no session; with the flag false the loop ends with the step that
\* completes its accept; with the flag true no step takes it out of its accept
AcceptLoopStepIsSafe(l) ==
    /\ ~server_destroyed /\ accept_loops[l] = "accept" =>
           /\ ~acceptor_open /\ accept_loops'[l] # "accept" =>
                  srv_sessions' = srv_sessions
           /\ ~server_running /\ AcceptLoopStep(l) => accept_loops'[l] = "done"
           /\ server_running => accept_loops'[l] = "accept"
    /\ accept_loops[l] = "done" => accept_loops'[l] = "done"

\* C40: after stop() on a running server, with no later run(), every accept
\* loop eventually terminates: the accept completes with the closed
\* acceptor's error, spawns no session, and the loop sees the flag false and
\* ends; while the flag is true an accept error never ends the loop.
C40_AcceptLoopTerminates ==
    /\ \A l \in LoopIds :
           (ServerStopped /\ l \in DOMAIN accept_loops) ~>
               \/ l \in DOMAIN accept_loops /\ accept_loops[l] = "done"
               \/ server_running \/ server_destroyed
    /\ [][\A l \in DOMAIN accept_loops : AcceptLoopStepIsSafe(l)]_vars

\* a stopped server whose accept loop has ended after its session was
\* accepted, while that session is still in its read
C40_Witness ==
    /\ ServerStopped /\ s_stops = 1
    /\ accept_loops = <<"done">>
    /\ Len(srv_sessions) = 1 /\ srv_sessions[1].pc = "read"

=============================================================================
